---------------------------- MODULE Spec2Model ----------------------------
(***************************************************************************)
(* A model of matrix-bridge-feishu: the mapping store (room mappings with  *)
(* their LRU front, message mappings, processed events, dead letters), the *)
(* Feishu webhook front end with its per-chat locks, the Feishu->Matrix    *)
(* message handler, the dead-letter replay and the Matrix->Feishu event    *)
(* processor.  Each subsystem has its own specification over the shared    *)
(* state:                                                                  *)
(*   SpecRoom    the room store and its cache                              *)
(*   SpecDeadLetter  the dead-letter store                                 *)
(*   SpecWebhook webhook intake, per-chat locks, handle_feishu_message     *)
(*   SpecReplay  record_dead_letter, replay_dead_letter and its handlers   *)
(*   SpecMatrix  appservice transactions and process_event                 *)
(* Asynchronous functions are split at their await points, so that tasks   *)
(* running on the multi-threaded runtime interleave as they do in the      *)
(* program.                                                                *)
(***************************************************************************)
EXTENDS Integers, Sequences, FiniteSets, TLC

(***************************************************************************)
(* Bounds of the model.                                                    *)
(***************************************************************************)
MaxRoomId == 2
MaxClock == 1
MaxReplayCount == 2
MaxTasks == 2
MaxReplayCalls == 3
MaxDeliveries == 3
MaxWaitCalls == 2
MaxDeadLetterId == 2
MaxApiCalls == 3
\* the seconds between two readings of the clock
TickSecs == 30
\* ProvisioningCoordinator.request_timeout, in clock ticks
RequestTimeout == 0
\* the longest time a wait_for_approval call is followed for
MaxElapsed == RequestTimeout + 2

(***************************************************************************)
(* The values the inputs are drawn from.                                   *)
(***************************************************************************)
Rooms == {"!r1", "!r2"}
Chats == {"oc_1", "oc_2"}
ChatNames == {"name_a", "name_b"}
None == "none"
FeishuMsgs == {"om_1", "om_2", "om_3"}
\* the chat a message was posted in, whether it has text, how many attachments
MsgChat(msg) == IF msg = "om_3" THEN "oc_2" ELSE "oc_1"
MsgHasText(msg) == msg # "om_2"
MsgAttachments(msg) == IF msg = "om_3" THEN 0 ELSE 1
ReplayProcs == {1, 2}
\* m.room.message events of the bridged room !r1: a text, and an image alone
MatrixEvents == {"$e1", "$e2"}
\* further events of !r1: the redaction of $e1, an edit (m.replace) of $e1,
\* and a text of msgtype m.notice
RelatedEvents == {"$r1", "$x1", "$n1"}
EventRoom(event) == "!r1"
EventType(event) == IF event = "$r1" THEN "m.room.redaction" ELSE "m.room.message"
EventMsgtype(event) ==
    IF event = "$e2" THEN "m.image" ELSE IF event = "$n1" THEN "m.notice" ELSE "m.text"
\* content.redacts, and m.relates_to of rel_type m.replace
EventRedacts(event) == IF event = "$r1" THEN "$e1" ELSE None
EventEditOf(event) == IF event = "$x1" THEN "$e1" ELSE None
EventHasText(event) == event \in {"$e1", "$x1", "$n1"}
EventAttachments(event) == IF event = "$e2" THEN 1 ELSE 0
MatrixProcs == {1, 2}
EventTypes == {"im.message.receive_v1", "im.unknown_v1"}
DedupeKeys == {"k1", "k2"}
\* JSON objects of a dead-letter payload: with and without a "message" field
Payloads == {[message |-> "om_1"], [chat_id |-> "oc_1"]}
PayloadChat(payload) ==
    IF "message" \in DOMAIN payload THEN MsgChat(payload.message) ELSE payload.chat_id
Errors == {"e1", "e2"}
DeadLetterIds == 1..2
WaitProcs == {1, 2}
Requestors == {"@u1"}
AdminTokens == {"t1", "t2", "t3"}
\* client.rs: DEFAULT_MAX_RETRIES, DEFAULT_RETRY_BASE_MS and the cap of next_backoff
DEFAULT_MAX_RETRIES == 3
DEFAULT_RETRY_BASE_MS == 250
MaxBackoffMs == 8000
\* get_tenant_access_token: the refresh margin and the shortest caching time
RefreshMarginSecs == 300
MinValidSecs == 60
\* the "expire" seconds the token endpoint answers with
TokenExpires == {30, 120, 7200}
\* replay_dead_letters: the default "limit" of a request without ids
DefaultReplayLimit == 20
\* cleanup_dead_letters: the default "limit"
DefaultCleanupLimit == 200
\* the "ids" of a batch replay request
BatchIdLists == {<<>>, <<1>>, <<1, 2>>, <<1, 1>>}
\* the admin API worker that serves the batch replay
BatchProc == 1
\* config.bridge as serde builds it from an empty section
DefaultBridgeConfig ==
    [bridge_matrix_edit |-> FALSE, bridge_matrix_redactions |-> FALSE,
     blocked_matrix_msgtypes |-> {}, enable_failure_degrade |-> TRUE]
\* the HTTP statuses of failed attempts
HttpStatuses == {302, 401, 403, 404, 429, 500}
\* the chats bridge requests are made for
ProvChats == {"oc_1"}
\* Option::None of a row
NoRow == [id |-> 0]

VARIABLES
    now,             \* the wall clock read by Utc::now()
    room_mappings,   \* table room_mappings: a set of rows
    room_next_id,    \* AUTOINCREMENT counter of room_mappings
    room_cache,      \* SqliteStores.room_cache: cache key -> cached row
    room_call,       \* the last RoomStore call and what it returned
    dead_letters,    \* table dead_letters: a set of rows
    dl_next_id,      \* AUTOINCREMENT counter of dead_letters
    dl_call,         \* the last DeadLetterStore write and its arguments
    message_mappings,\* table message_mappings: a set of rows
    msg_next_id,     \* AUTOINCREMENT counter of message_mappings
    redacted,        \* the Matrix events redacted by the bot
    processed_events,\* table processed_events: the set of event_id values
    matrix_events,   \* the events sent to the homeserver, in order
    portals,         \* portals_by_feishu_room: chats with an in-memory portal
    tasks,           \* the webhook events accepted so far, with their spawned task
    chat_queues,     \* FeishuService.chat_queues: chats that have a lock
    lock_holder,     \* per-chat lock: the task holding it, 0 when free
    lock_waiters,    \* per-chat lock: the tasks waiting for it, first come first
    frames,          \* the running handle_feishu_message calls, by caller
    replays,         \* the replay_dead_letter calls of the admin API workers
    replay_calls,    \* how many replay_dead_letter calls have been made
    feishu_sent,     \* the messages sent to Feishu, in order
    processing,      \* the process_event calls of the appservice workers
    delivered,       \* how many Matrix events have been delivered
    webhook_cfg,     \* encrypt_key, listen_secret and verification_token
    webhook_req,     \* the last request POSTed to /webhook
    webhook_res,     \* the response to it, and whether a handler was queued
    pending_requests,\* ProvisioningCoordinator.pending_requests: chat -> request
    prov_call,       \* the last ProvisioningCoordinator call and what it returned
    waits,           \* the wait_for_approval calls, by caller
    wait_calls,      \* how many wait_for_approval calls have been made
    admin_cfg,       \* ProvisioningApi.read_token, write_token, delete_token
    admin_req,       \* the last request to the admin API
    admin_res,       \* the response to it, and whether the handler acted
    max_retries,     \* FEISHU_API_MAX_RETRIES, or its default
    access_token,    \* FeishuClient.access_token: <<>> or <<token>>
    token_expires_at,\* FeishuClient.token_expires_at: <<>> or <<seconds>>
    api_call,        \* the get_tenant_access_token call in progress, or the last one
    api_calls,       \* how many calls have been made
    client_holder,   \* FeishuService.client: the caller holding the mutex, or <<>>
    client_waiters,  \* FeishuService.client: the callers waiting for it, in order
    batch,           \* the replay_dead_letters request of the admin API
    bridge_cfg       \* config.bridge: the flags and lists read by the processors


vars == <<now, room_mappings, room_next_id, room_cache, room_call,
          dead_letters, dl_next_id, dl_call,
          message_mappings, msg_next_id, redacted, processed_events, matrix_events,
          portals,
          tasks, chat_queues, lock_holder, lock_waiters, frames,
          replays, replay_calls, feishu_sent, processing, delivered,
          webhook_cfg, webhook_req, webhook_res,
          pending_requests, prov_call, waits, wait_calls,
          admin_cfg, admin_req, admin_res,
          max_retries, access_token, token_expires_at, api_call, api_calls,
          client_holder, client_waiters, batch,
          bridge_cfg>>

roomVars == <<room_mappings, room_next_id, room_cache, room_call>>
dlVars == <<dead_letters, dl_next_id, dl_call>>
msgVars == <<message_mappings, msg_next_id, redacted, processed_events, matrix_events>>
taskVars == <<tasks, chat_queues, lock_holder, lock_waiters>>
replayVars == <<replays, replay_calls>>
matrixVars == <<feishu_sent, processing, delivered>>
feishuVars == <<msgVars, portals, taskVars, frames, replayVars, matrixVars>>
sigVars == <<webhook_cfg, webhook_req, webhook_res>>
provVars == <<pending_requests, prov_call, waits, wait_calls>>
adminVars == <<admin_cfg, admin_req, admin_res>>
mutexVars == <<client_holder, client_waiters>>
clientVars == <<max_retries, access_token, token_expires_at, api_call, api_calls, mutexVars>>
apiVars == <<sigVars, provVars, adminVars, clientVars, batch, bridge_cfg>>

(***************************************************************************)
(* RoomStore                                                               *)
(***************************************************************************)
RoomRow(id, room, chat, name, at) ==
    [id |-> id, matrix_room_id |-> room, feishu_chat_id |-> chat,
     feishu_chat_name |-> name, updated_at |-> at]

\* cache keys are format!("mx:{}", id) and format!("fs:{}", id)
MxKey(room) == <<"mx", room>>
FsKey(chat) == <<"fs", chat>>

\* SELECT ... WHERE matrix_room_id = ? LIMIT 1
DbRoomByMatrixId(room) ==
    IF \E r \in room_mappings : r.matrix_room_id = room
    THEN CHOOSE r \in room_mappings : r.matrix_room_id = room
    ELSE NoRow

\* SELECT ... WHERE feishu_chat_id = ? LIMIT 1
DbRoomByFeishuId(chat) ==
    IF \E r \in room_mappings : r.feishu_chat_id = chat
    THEN CHOOSE r \in room_mappings : r.feishu_chat_id = chat
    ELSE NoRow

\* a room_mappings table whose feishu_chat_id column is not UNIQUE
RoomUniqueMatrixOnly(room, chat) ==
    \E r \in room_mappings : r.matrix_room_id = room

\* the UNIQUE columns of room_mappings
RoomUniqueViolated(room, chat) ==
    \E r \in room_mappings : r.matrix_room_id = room \/ r.feishu_chat_id = chat

\* what a lookup under `key` returns: the cached row when there is one,
\* the database row otherwise
CachedLookup(key, dbrow) ==
    IF key \in DOMAIN room_cache THEN room_cache[key] ELSE dbrow

\* the cache after a lookup: a row read from the database is put in it
CacheAfterLookup(key, dbrow) ==
    IF key \in DOMAIN room_cache \/ dbrow = NoRow
    THEN room_cache
    ELSE [k \in DOMAIN room_cache \cup {key} |->
            IF k = key THEN dbrow ELSE room_cache[k]]

\* the cache after update_room_mapping / delete_room_mapping of row `id`
CacheAfterWrite(id) == room_cache

GetRoomByMatrixId(room) ==
    /\ room_call' = [key |-> room,
                     op |-> "get_room_by_matrix_id",
                     status |-> "Ok",
                     row |-> CachedLookup(MxKey(room), DbRoomByMatrixId(room))]
    /\ room_cache' = CacheAfterLookup(MxKey(room), DbRoomByMatrixId(room))
    /\ UNCHANGED <<room_mappings, room_next_id>>

GetRoomByFeishuId(chat) ==
    /\ room_call' = [key |-> chat,
                     op |-> "get_room_by_feishu_id",
                     status |-> "Ok",
                     row |-> CachedLookup(FsKey(chat), DbRoomByFeishuId(chat))]
    /\ room_cache' = CacheAfterLookup(FsKey(chat), DbRoomByFeishuId(chat))
    /\ UNCHANGED <<room_mappings, room_next_id>>

CreateRoomMapping(room, chat, name) ==
    /\ room_next_id <= MaxRoomId
    /\ IF RoomUniqueViolated(room, chat)
       THEN /\ room_call' = [key |-> <<room, chat>>,
                             op |-> "create_room_mapping",
                             status |-> "Duplicate",
                             row |-> NoRow]
            /\ UNCHANGED <<room_mappings, room_next_id>>
       ELSE /\ room_mappings' = room_mappings \cup
                    {RoomRow(room_next_id, room, chat, name, now)}
            /\ room_next_id' = room_next_id + 1
            /\ room_call' = [key |-> <<room, chat>>,
                             op |-> "create_room_mapping",
                             status |-> "Ok",
                             row |-> NoRow]
    /\ UNCHANGED room_cache

\* UPDATE room_mappings SET ... WHERE id = mapping.id; the callers pass a row
\* they looked up, with the name changed
RoomsAfterUpdate(mapping, name) ==
    {IF r.id = mapping.id
        THEN RoomRow(r.id, mapping.matrix_room_id, mapping.feishu_chat_id, name, now)
        ELSE r : r \in room_mappings}

UpdateRoomMapping(mapping, name) ==
    /\ room_mappings' = RoomsAfterUpdate(mapping, name)
    /\ room_cache' = CacheAfterWrite(mapping.id)
    /\ room_call' = [key |-> mapping.id, op |-> "update_room_mapping", status |-> "Ok", row |-> NoRow]
    /\ UNCHANGED room_next_id

\* DELETE FROM room_mappings WHERE id = ?
DeleteRoomMapping(id) ==
    /\ room_mappings' = {r \in room_mappings : r.id # id}
    /\ room_cache' = CacheAfterWrite(id)
    /\ room_call' = [key |-> id, op |-> "delete_room_mapping", status |-> "Ok", row |-> NoRow]
    /\ UNCHANGED room_next_id

(***************************************************************************)
(* DeadLetterStore and record_dead_letter                                  *)
(***************************************************************************)
\* serde_json::Value::to_string and serde_json::from_str
JsonToString(value) == <<"json", value>>
JsonIsValid(text) == text[1] = "json"
JsonFromStr(text) == text[2]

DeadLetterByKey(key) == {r \in dead_letters : r.dedupe_key = key}

DeadLetterById(id) ==
    IF \E r \in dead_letters : r.id = id
    THEN CHOOSE r \in dead_letters : r.id = id
    ELSE NoRow

RECURSIVE IdsDescending(_)
\* ORDER BY id DESC
IdsDescending(ids) ==
    IF ids = {} THEN <<>>
    ELSE LET top == CHOOSE x \in ids : \A y \in ids : y <= x
         IN  <<top>> \o IdsDescending(ids \ {top})

\* list_dead_letters(Some(status), Some(limit), Some(0)), mapped to the ids
ListDeadLetterIds(status, limit) ==
    LET ids == IdsDescending({r.id : r \in {d \in dead_letters :
                                                status = None \/ d.status = status}})
    IN  IF Len(ids) > limit THEN SubSeq(ids, 1, limit) ELSE ids

\* an upsert that starts the replay counter of the existing row again
UpsertResetCount(row, event) ==
    [row EXCEPT !.error = event.error, !.payload = event.payload,
                !.status = "pending", !.updated_at = event.updated_at,
                !.replay_count = 0]

\* an upsert that leaves the status of the existing row alone
UpsertKeepStatus(row, event) ==
    [row EXCEPT !.error = event.error, !.payload = event.payload,
                !.updated_at = event.updated_at]

\* ON CONFLICT(dedupe_key) DO UPDATE SET error, payload, status, updated_at
UpsertDeadLetter(row, event) ==
    [row EXCEPT !.error = event.error, !.payload = event.payload,
                !.status = "pending", !.updated_at = event.updated_at]

CreateDeadLetter(event) ==
    IF DeadLetterByKey(event.dedupe_key) # {}
    THEN /\ dead_letters' =
                {IF r.dedupe_key = event.dedupe_key THEN UpsertDeadLetter(r, event) ELSE r :
                    r \in dead_letters}
         /\ UNCHANGED dl_next_id
    ELSE /\ dead_letters' = dead_letters \cup {[event EXCEPT !.id = dl_next_id]}
         /\ dl_next_id' = dl_next_id + 1

RecordDeadLetter(event_type, dedupe_key, chat_id, payload, error) ==
    /\ CreateDeadLetter(
          [chat_id |-> chat_id,
           payload |-> JsonToString(payload),
           id |-> 0,
           updated_at |-> now,
           status |-> "pending",
           dedupe_key |-> dedupe_key,
           error |-> error,
           replay_count |-> 0,
           event_type |-> event_type,
           last_replayed_at |-> None,
           created_at |-> now])
    /\ dl_call' = [payload |-> JsonToString(payload),
                   at |-> now,
                   key |-> dedupe_key,
                   op |-> "record_dead_letter",
                   error |-> error]

\* a mark_dead_letter_replayed that forgets the counter
MarkReplayedNoCount(id) ==
    /\ dead_letters' =
          {IF r.id = id
              THEN [r EXCEPT !.status = "replayed", !.last_replayed_at = now,
                             !.updated_at = now]
              ELSE r : r \in dead_letters}
    /\ dl_call' = [payload |-> None,
                   at |-> now,
                   key |-> id,
                   op |-> "mark_dead_letter_replayed",
                   error |-> None]
    /\ UNCHANGED dl_next_id

MarkDeadLetterReplayed(id) ==
    /\ dead_letters' =
          {IF r.id = id
              THEN [r EXCEPT !.status = "replayed", !.replay_count = @ + 1,
                             !.last_replayed_at = now, !.updated_at = now]
              ELSE r : r \in dead_letters}
    /\ dl_call' = [payload |-> None,
                   at |-> now,
                   key |-> id,
                   op |-> "mark_dead_letter_replayed",
                   error |-> None]
    /\ UNCHANGED dl_next_id

\* a mark_dead_letter_failed that records the error but not the status
MarkFailedErrorOnly(id, error) ==
    /\ dead_letters' =
          {IF r.id = id
              THEN [r EXCEPT !.error = error, !.updated_at = now]
              ELSE r : r \in dead_letters}
    /\ dl_call' = [payload |-> None,
                   at |-> now,
                   key |-> id,
                   op |-> "mark_dead_letter_failed",
                   error |-> error]
    /\ UNCHANGED dl_next_id

MarkDeadLetterFailed(id, error) ==
    /\ dead_letters' =
          {IF r.id = id
              THEN [r EXCEPT !.status = "failed", !.error = error, !.updated_at = now]
              ELSE r : r \in dead_letters}
    /\ dl_call' = [payload |-> None,
                   at |-> now,
                   key |-> id,
                   op |-> "mark_dead_letter_failed",
                   error |-> error]
    /\ UNCHANGED dl_next_id

(***************************************************************************)
(* MessageStore and EventStore                                             *)
(***************************************************************************)
MessageRow(event_id, msg) ==
    [id |-> msg_next_id, matrix_event_id |-> event_id, feishu_message_id |-> msg]

\* event_id values of processed_events: format!("feishu:{}", id),
\* format!("matrix:{}", id), and the id as it came
SourceId(prefix, id) == [id |-> id, prefix |-> prefix]

GetMessageByFeishuId(msg) ==
    IF \E r \in message_mappings : r.feishu_message_id = msg
    THEN CHOOSE r \in message_mappings : r.feishu_message_id = msg
    ELSE NoRow

\* the UNIQUE columns of message_mappings
MessageUniqueViolated(row) ==
    \E r \in message_mappings :
        \/ r.matrix_event_id = row.matrix_event_id
        \/ r.feishu_message_id = row.feishu_message_id

\* INSERT INTO message_mappings: the table after the call
MessagesAfterCreate(row) ==
    IF MessageUniqueViolated(row) THEN message_mappings ELSE message_mappings \cup {row}

CreateMessageMapping(row) ==
    /\ message_mappings' = MessagesAfterCreate(row)
    /\ msg_next_id' = IF MessageUniqueViolated(row) THEN msg_next_id ELSE msg_next_id + 1

\* a delete that is skipped when the Matrix event could not be redacted
MessagesAfterDeleteIfRedacted(id) ==
    {r \in message_mappings : r.id # id \/ r.matrix_event_id \notin redacted}

\* DELETE FROM message_mappings WHERE id = ?
MessagesAfterDelete(id) == {r \in message_mappings : r.id # id}

(***************************************************************************)
(* handle_feishu_message, one step per await.  A call is identified by its *)
(* caller c: <<"task", i>> for the i-th queued webhook task, <<"replay", p>>*)
(* for the replay_dead_letter call of worker p.                            *)
(***************************************************************************)
TaskCtx(i) == <<"task", i>>
ReplayCtx(p) == <<"replay", p>>
Ctxs == {TaskCtx(i) : i \in 1..MaxTasks} \cup {ReplayCtx(p) : p \in ReplayProcs}

IdleFrame == [msg |-> None, pc |-> "idle", primary |-> 0, found |-> NoRow]
EnterFrame(msg) == [msg |-> msg, pc |-> "check", primary |-> 0, found |-> NoRow]
\* the entry of handle_feishu_message_recalled
EnterRecall(msg) == [msg |-> msg, pc |-> "recall", primary |-> 0, found |-> NoRow]

\* get_message_by_feishu_id(message.id): an already bridged message is skipped
HandlerCheck(c) ==
    /\ frames[c].pc = "check"
    /\ frames' = [frames EXCEPT ![c].pc =
            IF GetMessageByFeishuId(frames[c].msg) # NoRow THEN "ok" ELSE "portal"]
    /\ UNCHANGED <<now, roomVars, dlVars, msgVars, portals, taskVars, replayVars, matrixVars, apiVars>>

\* room lookup, get_chat and the chat-name backfill, the portal, and
\* ensure_registered, which may fail
HandlerPortal(c) ==
    /\ frames[c].pc = "portal"
    /\ LET chat == MsgChat(frames[c].msg)
           dbrow == DbRoomByFeishuId(chat)
           mapping == CachedLookup(FsKey(chat), dbrow)
       IN  /\ room_cache' = CacheAfterLookup(FsKey(chat), dbrow)
           /\ \E chat_name \in {None, "name_a"} :
                room_mappings' =
                    IF mapping # NoRow /\ mapping.feishu_chat_name = None /\ chat_name # None
                    THEN RoomsAfterUpdate(mapping, chat_name)
                    ELSE room_mappings
           /\ portals' = IF mapping = NoRow THEN portals \cup {chat} ELSE portals
    /\ \E registered \in BOOLEAN :
            frames' = [frames EXCEPT ![c].pc = IF registered THEN "send" ELSE "err"]
    /\ UNCHANGED <<now, room_next_id, room_call, dlVars, msgVars, taskVars, replayVars, matrixVars, apiVars>>

\* where the handler stands once the text part is over
AfterText(msg, primary) ==
    IF MsgAttachments(msg) > 0 THEN "attach"
    ELSE IF primary # 0 THEN "map" ELSE "ok"

\* send_matrix_text_message(...).await?
HandlerSendText(c) ==
    /\ frames[c].pc = "send"
    /\ LET msg == frames[c].msg
           event_id == Len(matrix_events) + 1
       IN  IF MsgHasText(msg)
           THEN \/ /\ matrix_events' = Append(matrix_events,
                            [msg |-> msg, primary |-> TRUE, kind |-> "text"])
                   /\ frames' = [frames EXCEPT ![c].primary = event_id,
                                               ![c].pc = AfterText(msg, event_id)]
                \/ /\ frames' = [frames EXCEPT ![c].pc = "err"]
                   /\ UNCHANGED matrix_events
           ELSE /\ frames' = [frames EXCEPT ![c].pc = AfterText(msg, 0)]
                /\ UNCHANGED matrix_events
    /\ UNCHANGED <<now, roomVars, dlVars, message_mappings, msg_next_id, redacted, processed_events,
                   portals, taskVars, replayVars, matrixVars, apiVars>>

\* forward_feishu_attachments_to_matrix: a failed attachment is only logged; the
\* first attachment event is the primary event of a message without text
HandlerAttach(c) ==
    /\ frames[c].pc = "attach"
    /\ LET msg == frames[c].msg
           event_id == Len(matrix_events) + 1
           primary == frames[c].primary
       IN  \/ /\ matrix_events' = Append(matrix_events,
                        [msg |-> msg, primary |-> primary = 0, kind |-> "file"])
              /\ frames' = [frames EXCEPT
                    ![c].primary = IF primary = 0 THEN event_id ELSE primary,
                    ![c].pc = "map"]
           \/ /\ frames' = [frames EXCEPT ![c].pc = IF primary # 0 THEN "map" ELSE "ok"]
              /\ UNCHANGED matrix_events
    /\ UNCHANGED <<now, roomVars, dlVars, message_mappings, msg_next_id, redacted, processed_events,
                   portals, taskVars, replayVars, matrixVars, apiVars>>

\* create_message_mapping: a failure is only logged
HandlerMap(c) ==
    /\ frames[c].pc = "map"
    /\ CreateMessageMapping(MessageRow(frames[c].primary, frames[c].msg))
    /\ frames' = [frames EXCEPT ![c].pc = "ok"]
    /\ UNCHANGED <<now, roomVars, dlVars, redacted, processed_events, matrix_events,
                   portals, taskVars, replayVars, matrixVars, apiVars>>

(***************************************************************************)
(* handle_feishu_message_recalled, one step per await                      *)
(***************************************************************************)
\* get_message_by_feishu_id(feishu_message_id): nothing to do without a mapping
RecallLookup(c) ==
    /\ frames[c].pc = "recall"
    /\ LET mapping == GetMessageByFeishuId(frames[c].msg)
       IN  frames' = [frames EXCEPT ![c].found = mapping,
                                    ![c].pc = IF mapping = NoRow THEN "ok" ELSE "redact"]
    /\ UNCHANGED <<now, roomVars, dlVars, msgVars, portals, taskVars, replayVars, matrixVars, apiVars>>

\* bot_intent.redact_event: a failure is only logged
RecallRedact(c) ==
    /\ frames[c].pc = "redact"
    /\ \/ redacted' = redacted \cup {frames[c].found.matrix_event_id}
       \/ UNCHANGED redacted
    /\ frames' = [frames EXCEPT ![c].pc = "delete"]
    /\ UNCHANGED <<now, roomVars, dlVars, message_mappings, msg_next_id, processed_events,
                   matrix_events, portals, taskVars, replayVars, matrixVars, apiVars>>

\* delete_message_mapping(mapping.id), then Ok(())
RecallDelete(c) ==
    /\ frames[c].pc = "delete"
    /\ message_mappings' = MessagesAfterDelete(frames[c].found.id)
    /\ frames' = [frames EXCEPT ![c].pc = "ok"]
    /\ UNCHANGED <<now, roomVars, dlVars, msg_next_id, redacted, processed_events,
                   matrix_events, portals, taskVars, replayVars, matrixVars, apiVars>>

(***************************************************************************)
(* handle_feishu_chat_disbanded, one step per await; i is the queued task  *)
(***************************************************************************)
\* the entry of handle_feishu_chat_disbanded
EnterDisband == [msg |-> None, pc |-> "disband", primary |-> 0, found |-> NoRow]

\* message_mappings.room_id is portal.mxid: the messages of oc_1 went through
\* the portal of the bridged room, the chat oc_2 has no room
MessageRoomId(row) ==
    IF MsgChat(row.feishu_message_id) = "oc_1" THEN "!r1" ELSE None

\* get_messages_by_room(room_id, Some(2000)): the rows of the room
GetMessagesByRoom(room) == {r \in message_mappings : MessageRoomId(r) = room}

\* get_room_by_feishu_id(chat_id): without a mapping only the portal caches
\* are cleared
DisbandLookup(i) ==
    /\ i \in DOMAIN tasks
    /\ frames[TaskCtx(i)].pc = "disband"
    /\ LET chat == tasks[i].chat
           dbrow == DbRoomByFeishuId(chat)
           mapping == CachedLookup(FsKey(chat), dbrow)
       IN  /\ room_cache' = CacheAfterLookup(FsKey(chat), dbrow)
           /\ portals' = IF mapping = NoRow THEN portals \ {chat} ELSE portals
           /\ frames' = [frames EXCEPT ![TaskCtx(i)].found = mapping,
                                       ![TaskCtx(i)].pc =
                                            IF mapping = NoRow THEN "ok" ELSE "history"]
    /\ UNCHANGED <<now, room_mappings, room_next_id, room_call, dlVars, msgVars,
                   taskVars, replayVars, matrixVars, apiVars>>

\* get_messages_by_room and delete_message_mapping for every row it returned
DisbandHistory(i) ==
    /\ i \in DOMAIN tasks
    /\ frames[TaskCtx(i)].pc = "history"
    /\ message_mappings' =
            message_mappings \ GetMessagesByRoom(frames[TaskCtx(i)].found.matrix_room_id)
    /\ frames' = [frames EXCEPT ![TaskCtx(i)].pc = "unroom"]
    /\ UNCHANGED <<now, roomVars, dlVars, msg_next_id, redacted, processed_events,
                   matrix_events, portals, taskVars, replayVars, matrixVars, apiVars>>

\* delete_room_mapping(mapping.id), the portal caches, the notice, Ok(())
DisbandRoom(i) ==
    /\ i \in DOMAIN tasks
    /\ frames[TaskCtx(i)].pc = "unroom"
    /\ DeleteRoomMapping(frames[TaskCtx(i)].found.id)
    /\ portals' = portals \ {tasks[i].chat}
    /\ frames' = [frames EXCEPT ![TaskCtx(i)].pc = "ok"]
    /\ UNCHANGED <<now, dlVars, msgVars, taskVars, replayVars, matrixVars, apiVars>>

(***************************************************************************)
(* The webhook front end: handle_webhook and queue_chat_task               *)
(***************************************************************************)
\* a front end that answers only when no handler of the chat is running
AckWhenLockFree(chat) == IF lock_holder[chat] = 0 THEN "accepted" ELSE "pending"

\* res.status_code(OK); res.render("accepted") right after queue_chat_task
AckResponse(chat) == "accepted"

\* im.message.receive_v1: the chat's lock is looked up or created, the task is
\* spawned, and the request is answered
WebhookAccept(msg) ==
    /\ Len(tasks) < MaxTasks
    /\ chat_queues' = chat_queues \cup {MsgChat(msg)}
    /\ tasks' = Append(tasks, [msg |-> msg,
                               chat |-> MsgChat(msg),
                               kind |-> "message",
                               st |-> "spawned",
                               resp |-> AckResponse(MsgChat(msg))])
    /\ UNCHANGED <<now, roomVars, dlVars, msgVars, portals, lock_holder, lock_waiters,
                   frames, replayVars, matrixVars, apiVars>>

\* im.message.recalled_v1: queued on the lock of the message's chat
WebhookAcceptRecalled(msg) ==
    /\ Len(tasks) < MaxTasks
    /\ chat_queues' = chat_queues \cup {MsgChat(msg)}
    /\ tasks' = Append(tasks, [msg |-> msg,
                               chat |-> MsgChat(msg),
                               kind |-> "recalled",
                               st |-> "spawned",
                               resp |-> AckResponse(MsgChat(msg))])
    /\ UNCHANGED <<now, roomVars, dlVars, msgVars, portals, lock_holder, lock_waiters,
                   frames, replayVars, matrixVars, apiVars>>

\* im.chat.disbanded_v1: queued on the lock of the disbanded chat
WebhookAcceptDisbanded(chat) ==
    /\ Len(tasks) < MaxTasks
    /\ chat_queues' = chat_queues \cup {chat}
    /\ tasks' = Append(tasks, [msg |-> None,
                               chat |-> chat,
                               kind |-> "disbanded",
                               st |-> "spawned",
                               resp |-> AckResponse(chat)])
    /\ UNCHANGED <<now, roomVars, dlVars, msgVars, portals, lock_holder, lock_waiters,
                   frames, replayVars, matrixVars, apiVars>>

\* the handler call a queued task makes
TaskFrame(task) ==
    IF task.kind = "recalled" THEN EnterRecall(task.msg)
    ELSE IF task.kind = "disbanded" THEN EnterDisband
    ELSE EnterFrame(task.msg)

\* a task that runs its handler without looking at the chat's lock
LockNotTaken(chat) == TRUE

\* queue_lock.lock() is granted at once exactly when no task holds the lock
LockIsFree(chat) == lock_holder[chat] = 0

\* the first poll of a spawned task: queue_lock.lock().await
TaskStart(i) ==
    /\ i \in DOMAIN tasks
    /\ tasks[i].st = "spawned"
    /\ LET chat == tasks[i].chat
       IN  IF LockIsFree(chat)
           THEN /\ lock_holder' = [lock_holder EXCEPT ![chat] = i]
                /\ tasks' = [tasks EXCEPT ![i].st = "running"]
                /\ frames' = [frames EXCEPT ![TaskCtx(i)] = TaskFrame(tasks[i])]
                /\ UNCHANGED lock_waiters
           ELSE /\ lock_waiters' = [lock_waiters EXCEPT ![chat] = Append(@, i)]
                /\ tasks' = [tasks EXCEPT ![i].st = "waiting"]
                /\ UNCHANGED <<lock_holder, frames>>
    /\ UNCHANGED <<now, roomVars, dlVars, msgVars, portals, chat_queues, replayVars, matrixVars, apiVars>>

\* the handler has returned (an error is only logged); the guard is dropped and
\* the lock goes to the task that has waited longest
TaskFinish(i) ==
    /\ i \in DOMAIN tasks
    /\ tasks[i].st = "running"
    /\ frames[TaskCtx(i)].pc \in {"ok", "err"}
    /\ LET chat == tasks[i].chat
           waiters == lock_waiters[chat]
       IN  IF waiters = <<>>
           THEN /\ lock_holder' = [lock_holder EXCEPT ![chat] = 0]
                /\ tasks' = [tasks EXCEPT ![i].st = "done"]
                /\ frames' = [frames EXCEPT ![TaskCtx(i)] = IdleFrame]
                /\ UNCHANGED lock_waiters
           ELSE /\ lock_holder' = [lock_holder EXCEPT ![chat] = Head(waiters)]
                /\ lock_waiters' = [lock_waiters EXCEPT ![chat] = Tail(waiters)]
                /\ tasks' = [tasks EXCEPT ![i].st = "done",
                                          ![Head(waiters)].st = "running"]
                /\ frames' = [frames EXCEPT
                        ![TaskCtx(i)] = IdleFrame,
                        ![TaskCtx(Head(waiters))] = TaskFrame(tasks[Head(waiters)])]
    /\ UNCHANGED <<now, roomVars, dlVars, msgVars, portals, chat_queues, replayVars, matrixVars, apiVars>>

(***************************************************************************)
(* Webhook authentication: verify_request_signature, verify_payload_token  *)
(* and the path of handle_webhook from the request to the dispatch         *)
(***************************************************************************)
WebhookConfigs ==
    [encrypt_key : {None, "ek"}, listen_secret : {"", "ls"},
     verification_token : {None, "vt"}]

\* the "encrypt" field of a payload: absent, or AES ciphertext under a key
NoCipher == [key |-> None, plain |-> <<"text", "">>]
Cipher(key, plain) == [key |-> key, plain |-> plain]

\* a webhook payload: "type", "token" (or header.token), header.event_type,
\* event.message.message_id and "encrypt"
WebhookPayload(type, token, event_type, msg, encrypt) ==
    [msg |-> msg,
     event_type |-> event_type,
     type |-> type,
     token |-> token,
     encrypt |-> encrypt]

PlainBodies ==
    { <<"text", "garbage">>,
      JsonToString(WebhookPayload("url_verification", "vt", "", None, NoCipher)),
      JsonToString(WebhookPayload("url_verification", "bad", "", None, NoCipher)),
      JsonToString(WebhookPayload(None, "vt", "im.message.receive_v1", "om_1", NoCipher)),
      JsonToString(WebhookPayload(None, "bad", "im.message.receive_v1", "om_1", NoCipher)),
      JsonToString(WebhookPayload(None, "vt", "im.message.receive_v1", None, NoCipher)),
      JsonToString(WebhookPayload(None, "vt", "", None, NoCipher)),
      JsonToString(WebhookPayload(None, "vt", "im.unknown_v1", None, NoCipher)) }

WebhookBodies ==
    PlainBodies \cup
    { JsonToString(WebhookPayload(None, None, "", None,
        Cipher("ek", JsonToString(
            WebhookPayload(None, "vt", "im.message.receive_v1", "om_1", NoCipher))))) }

\* hex::encode(Sha256::digest(timestamp + nonce + secret + body)): lower-case hex
Sha256Hex(timestamp, nonce, secret, body) ==
    [digest |-> <<timestamp, nonce, secret, body>>, form |-> "lower"]

\* a missing X-Lark-Signature header
NoSignature == [digest |-> <<>>, form |-> "missing"]

\* the header as the sender wrote it: lower-case hex, upper-case hex, or
\* lower-case hex behind "sha256="
SignatureForms == {"lower", "upper", "prefixed"}

\* provided.trim().trim_start_matches("sha256=").to_ascii_lowercase()
NormalizeSignature(provided) ==
    IF provided.form \in SignatureForms
    THEN [provided EXCEPT !.form = "lower"]
    ELSE provided

VerifyWebhookSignature(secret, timestamp, nonce, body, provided) ==
    \/ secret = ""
    \/ NormalizeSignature(provided) = Sha256Hex(timestamp, nonce, secret, body)

VerifyVerificationToken(cfg, token) ==
    IF cfg.verification_token = None THEN TRUE
    ELSE token # None /\ token = cfg.verification_token

\* encrypt_key when it is set and not empty, else listen_secret when not empty
CallbackSignatureKey(cfg) ==
    IF cfg.encrypt_key # None /\ cfg.encrypt_key # ""
    THEN cfg.encrypt_key
    ELSE IF cfg.listen_secret # "" THEN cfg.listen_secret ELSE None

\* without an encrypt_key the field is returned as it is; with one, decryption
\* under another key fails
DecryptWebhookContent(cfg, encrypt) ==
    IF cfg.encrypt_key = None
    THEN [text |-> <<"text", encrypt>>, ok |-> TRUE]
    ELSE IF encrypt.key = cfg.encrypt_key
         THEN [text |-> encrypt.plain, ok |-> TRUE]
         ELSE [text |-> <<"text", "">>, ok |-> FALSE]

\* TRUE when verify_request_signature sets 401 on the response
SignatureRejected(cfg, req) ==
    /\ CallbackSignatureKey(cfg) # None
    /\ \/ req.timestamp = None
       \/ req.nonce = None
       \/ req.signature = NoSignature
       \/ ~VerifyWebhookSignature(CallbackSignatureKey(cfg), req.timestamp, req.nonce,
                                  req.body, req.signature)

WebhookReply(status, queued) == [status |-> status, queued |-> queued]

\* handle_webhook after the body was read: the status the client receives and
\* whether queue_chat_task was called
WebhookResult(cfg, req) ==
    IF ~JsonIsValid(req.body) THEN WebhookReply(500, FALSE)
    ELSE
    LET outer == JsonFromStr(req.body)
        encrypted == outer.encrypt # NoCipher
        decrypted == DecryptWebhookContent(cfg, outer.encrypt)
    IN  IF encrypted /\ (~decrypted.ok \/ ~JsonIsValid(decrypted.text))
        THEN WebhookReply(500, FALSE)
        ELSE
        LET payload == IF encrypted THEN JsonFromStr(decrypted.text) ELSE outer
        IN  IF payload.type = "url_verification"
            THEN IF VerifyVerificationToken(cfg, payload.token)
                 THEN WebhookReply(200, FALSE)
                 ELSE WebhookReply(401, FALSE)
            ELSE IF SignatureRejected(cfg, req) THEN WebhookReply(401, FALSE)
            ELSE IF ~VerifyVerificationToken(cfg, payload.token)
                 THEN WebhookReply(401, FALSE)
            ELSE IF payload.event_type = "" THEN WebhookReply(400, FALSE)
            ELSE IF payload.event_type = "im.message.receive_v1"
                 THEN IF payload.msg = None
                      THEN WebhookReply(500, FALSE)
                      ELSE WebhookReply(200, TRUE)
            ELSE WebhookReply(200, FALSE)

\* the message a request queues a handler for
WebhookMessage(cfg, req) ==
    LET outer == JsonFromStr(req.body)
    IN  IF outer.encrypt # NoCipher
        THEN JsonFromStr(DecryptWebhookContent(cfg, outer.encrypt).text).msg
        ELSE outer.msg

NoRequest == [timestamp |-> None,
              nonce |-> None,
              body |-> <<"text", "">>,
              signature |-> NoSignature]

HandleWebhook(req) ==
    LET result == WebhookResult(webhook_cfg, req)
    IN  /\ webhook_req' = req
        /\ webhook_res' = result
        /\ IF result.queued
           THEN LET msg == WebhookMessage(webhook_cfg, req)
                IN  /\ Len(tasks) < MaxTasks
                    /\ chat_queues' = chat_queues \cup {MsgChat(msg)}
                    /\ tasks' = Append(tasks, [msg |-> msg,
                                               chat |-> MsgChat(msg),
                                               kind |-> "message",
                                               st |-> "spawned",
                                               resp |-> AckResponse(MsgChat(msg))])
           ELSE UNCHANGED <<tasks, chat_queues>>
        /\ UNCHANGED <<now, roomVars, dlVars, msgVars, portals, lock_holder, lock_waiters,
                       frames, replayVars, matrixVars, webhook_cfg, provVars, adminVars,
                       clientVars, batch, bridge_cfg>>

(***************************************************************************)
(* ProvisioningCoordinator                                                 *)
(***************************************************************************)
PendingBridgeRequest(chat, room, requestor, at, status) ==
    [matrix_room_id |-> room,
     feishu_chat_id |-> chat,
     status |-> status,
     created_at |-> at,
     matrix_requestor |-> requestor]

\* Option::None of a request
NoRequestRow == PendingBridgeRequest(None, None, None, 0, "None")

RequestOf(chat) ==
    IF chat \in DOMAIN pending_requests THEN pending_requests[chat] ELSE NoRequestRow

\* requests.insert(chat, request)
RequestsWith(chat, request) ==
    [c \in DOMAIN pending_requests \cup {chat} |->
        IF c = chat THEN request ELSE pending_requests[c]]

\* requests.remove(chat)
RequestsWithout(chat) ==
    [c \in DOMAIN pending_requests \ {chat} |-> pending_requests[c]]

\* requests.get_mut(chat): request.status = status
RequestsWithStatus(chat, status) ==
    IF chat \in DOMAIN pending_requests
    THEN [pending_requests EXCEPT ![chat].status = status]
    ELSE pending_requests

\* `before` is the request the chat had when request_bridge was called
ProvCall(op, chat, result, before) ==
    [chat |-> chat, op |-> op, result |-> result, before |-> before]

\* a request_bridge that inserts without looking for an existing request
RequestsAfterOverwrite(chat, room, requestor) ==
    RequestsWith(chat, PendingBridgeRequest(chat, room, requestor, now, "Pending"))

\* the map after request_bridge
RequestsAfterRequest(chat, room, requestor) ==
    IF chat \in DOMAIN pending_requests
    THEN pending_requests
    ELSE RequestsWith(chat, PendingBridgeRequest(chat, room, requestor, now, "Pending"))

RequestBridge(chat, room, requestor) ==
    /\ pending_requests' = RequestsAfterRequest(chat, room, requestor)
    /\ prov_call' = ProvCall("request_bridge", chat,
                        IF chat \in DOMAIN pending_requests THEN "AlreadyExists" ELSE "Ok",
                        RequestOf(chat))
    /\ UNCHANGED <<waits, wait_calls>>

\* a mark_approval that applies to any request the chat has
RequestExists(chat) == chat \in DOMAIN pending_requests

\* requests.get_mut(chat) is Some(request) and request.status == Pending
RequestIsPending(chat) == RequestOf(chat).status = "Pending"

MarkApproval(chat, approved) ==
    /\ IF RequestIsPending(chat)
       THEN /\ pending_requests' =
                    RequestsWithStatus(chat, IF approved THEN "Approved" ELSE "Declined")
            /\ prov_call' = ProvCall("mark_approval", chat, "Applied", NoRequestRow)
       ELSE /\ UNCHANGED pending_requests
            /\ prov_call' = ProvCall("mark_approval", chat, "Expired", NoRequestRow)
    /\ UNCHANGED <<waits, wait_calls>>

\* the Pending requests older than request_timeout become Expired
CleanupExpired ==
    /\ pending_requests' =
            [c \in DOMAIN pending_requests |->
                IF /\ now - pending_requests[c].created_at > RequestTimeout
                   /\ pending_requests[c].status = "Pending"
                THEN [pending_requests[c] EXCEPT !.status = "Expired"]
                ELSE pending_requests[c]]
    /\ prov_call' = ProvCall("cleanup_expired", None, "Ok", NoRequestRow)
    /\ UNCHANGED <<waits, wait_calls>>

(***************************************************************************)
(* wait_for_approval, one step per await                                   *)
(***************************************************************************)
IdleWait == [chat |-> None, pc |-> "idle", result |-> None, elapsed |-> 0, seen |-> "None"]

\* a sleep that takes no time
ElapsedFrozen(elapsed) == elapsed

\* start.elapsed() after tokio::time::sleep(500 ms): a poll later at the least
ElapsedAfterSleep(elapsed) ==
    IF elapsed < MaxElapsed THEN elapsed + 1 ELSE MaxElapsed

\* let start = Instant::now(), up to the first lock().await
WaitStart(p, chat) ==
    /\ waits[p].pc \in {"idle", "returned"}
    /\ wait_calls < MaxWaitCalls
    /\ wait_calls' = wait_calls + 1
    /\ waits' = [waits EXCEPT ![p] = [chat |-> chat,
                                      pc |-> "check",
                                      result |-> None,
                                      elapsed |-> 0,
                                      seen |-> "None"]]
    /\ UNCHANGED <<pending_requests, prov_call>>

\* the top of the loop: the status is read under the lock, then matched, then
\* the elapsed time is compared with the timeout
WaitCheck(p) ==
    /\ waits[p].pc = "check"
    /\ LET status == RequestOf(waits[p].chat).status
       IN  waits' = [waits EXCEPT ![p] =
                CASE status = "None" ->
                        [@ EXCEPT !.pc = "returned", !.result = "NotFound",
                                  !.seen = status, !.elapsed = 0]
                  [] status = "Approved" ->
                        [@ EXCEPT !.pc = "remove", !.result = "Ok", !.seen = status]
                  [] status = "Declined" ->
                        [@ EXCEPT !.pc = "remove", !.result = "Declined", !.seen = status]
                  [] status = "Expired" ->
                        [@ EXCEPT !.pc = "remove", !.result = "TimedOut", !.seen = status]
                  [] status = "Pending" ->
                        IF waits[p].elapsed > RequestTimeout
                        THEN [@ EXCEPT !.pc = "expire", !.result = "TimedOut",
                                       !.seen = status]
                        ELSE [@ EXCEPT !.pc = "sleep", !.seen = status]]
    /\ UNCHANGED <<pending_requests, prov_call, wait_calls>>

\* remove_request, then return
WaitRemove(p) ==
    /\ waits[p].pc = "remove"
    /\ pending_requests' = RequestsWithout(waits[p].chat)
    /\ prov_call' = ProvCall("remove_request", waits[p].chat, "Ok", NoRequestRow)
    /\ waits' = [waits EXCEPT ![p].pc = "returned", ![p].elapsed = 0]
    /\ UNCHANGED wait_calls

\* mark_expired, then return Err(TimedOut)
WaitExpire(p) ==
    /\ waits[p].pc = "expire"
    /\ pending_requests' = RequestsWithStatus(waits[p].chat, "Expired")
    /\ prov_call' = ProvCall("mark_expired", waits[p].chat, "Ok", NoRequestRow)
    /\ waits' = [waits EXCEPT ![p].pc = "returned", ![p].elapsed = 0]
    /\ UNCHANGED wait_calls

\* tokio::time::sleep(Duration::from_millis(500)).await
WaitSleep(p) ==
    /\ waits[p].pc = "sleep"
    /\ waits' = [waits EXCEPT ![p].pc = "check",
                              ![p].elapsed = ElapsedAfterSleep(waits[p].elapsed)]
    /\ UNCHANGED <<pending_requests, prov_call, wait_calls>>

WaitStep(p) == WaitCheck(p) \/ WaitRemove(p) \/ WaitExpire(p) \/ WaitSleep(p)

(***************************************************************************)
(* The admin API: require_auth and the handlers behind it                  *)
(***************************************************************************)
AdminEndpoints ==
    {"provisioning_status", "create_bridge", "delete_bridge", "list_bridges",
     "list_mappings", "list_pending", "list_dead_letters", "replay_dead_letter",
     "replay_dead_letters", "cleanup_dead_letters"}

\* the scope each handler passes to require_auth
RequiredScope(endpoint) ==
    CASE endpoint \in {"create_bridge", "replay_dead_letter", "replay_dead_letters"}
            -> "write"
      [] endpoint \in {"delete_bridge", "cleanup_dead_letters"} -> "delete"
      [] OTHER -> "read"

\* the handlers that take a JsonBody argument, extracted before they run
HasJsonBody(endpoint) ==
    endpoint \in {"create_bridge", "replay_dead_letters", "cleanup_dead_letters"}

ResolveScopeForToken(cfg, token) ==
    IF token = cfg.delete_token THEN "delete"
    ELSE IF token = cfg.write_token THEN "write"
    ELSE IF token = cfg.read_token THEN "read"
    ELSE None

\* ranks that put read above delete
AuthScopeRankReversed(scope) ==
    CASE scope = "read" -> 3
      [] scope = "write" -> 2
      [] scope = "delete" -> 1

AuthScopeRank(scope) ==
    CASE scope = "read" -> 1
      [] scope = "write" -> 2
      [] scope = "delete" -> 3

ScopeSatisfies(granted, required) == AuthScopeRank(granted) >= AuthScopeRank(required)

AdminReply(status, message, performed) ==
    [message |-> message,
     status |-> status,
     performed |-> performed,
     dry_run |-> FALSE,
     matched |-> 0,
     deleted |-> 0,
     candidate_ids |-> <<>>]

\* the DeadLetterCleanupResponse of a cleanup that went through
CleanupReply(dry_run, matched, deleted, candidate_ids) ==
    [message |-> "",
     status |-> 200,
     performed |-> TRUE,
     dry_run |-> dry_run,
     matched |-> matched,
     deleted |-> deleted,
     candidate_ids |-> candidate_ids]

\* require_auth: Some(AuthContext), or None with the 401 it rendered
RequireAuth(cfg, token, required) ==
    IF token = None
    THEN [ok |-> FALSE, reply |-> AdminReply(401, "missing authorization token", FALSE)]
    ELSE LET granted == ResolveScopeForToken(cfg, token)
         IN  IF granted # None /\ ScopeSatisfies(granted, required)
             THEN [ok |-> TRUE, reply |-> AdminReply(200, "", FALSE)]
             ELSE [ok |-> FALSE,
                   reply |-> AdminReply(401, "invalid authorization token", FALSE)]

\* a request whose JsonBody cannot be extracted never reaches the handler:
\* the framework answers it
ExtractFailed(req) == HasJsonBody(req.endpoint) /\ ~req.body_ok

\* a DeadLetterCleanupRequest; a missing field is <<>>
CleanupBody(status, older_than_hours, limit, dry_run) ==
    [status |-> status,
     limit |-> limit,
     dry_run |-> dry_run,
     older_than_hours |-> older_than_hours]

AdminRequest(endpoint, token, body_ok) ==
    [token |-> token,
     body |-> CleanupBody(None, <<>>, <<>>, FALSE),
     endpoint |-> endpoint,
     body_ok |-> body_ok]

\* the part every handler starts with; `Handler(reply)` is what it does once
\* require_auth has returned Some
AdminHandle(req, Handler(_), Untouched) ==
    /\ admin_req' = req
    /\ IF ExtractFailed(req)
       THEN /\ admin_res' = AdminReply(400, "extractor", FALSE)
            /\ Untouched
       ELSE LET auth == RequireAuth(admin_cfg, req.token, RequiredScope(req.endpoint))
            IN  IF ~auth.ok
                THEN /\ admin_res' = auth.reply
                     /\ Untouched
                ELSE Handler(auth.reply)
    /\ UNCHANGED admin_cfg

\* provisioning_status, list_bridges, list_mappings, list_pending and
\* list_dead_letters only read
AdminRead(req) ==
    /\ RequiredScope(req.endpoint) = "read"
    /\ LET Handler(reply) ==
            /\ admin_res' = AdminReply(200, "", TRUE)
       IN  AdminHandle(req, Handler, TRUE)
    /\ UNCHANGED <<now, roomVars, dlVars, feishuVars, sigVars, provVars, clientVars, batch, bridge_cfg>>

\* create_bridge: the coordinator's request_bridge, 201 or 400
AdminCreateBridge(req, chat, room, requestor) ==
    /\ req.endpoint = "create_bridge"
    /\ LET Handler(reply) ==
            /\ RequestBridge(chat, room, requestor)
            /\ admin_res' = IF chat \in DOMAIN pending_requests
                            THEN AdminReply(400, "bridge already exists", TRUE)
                            ELSE AdminReply(201, "Bridge request created", TRUE)
       IN  AdminHandle(req, Handler, UNCHANGED provVars)
    /\ UNCHANGED <<now, roomVars, dlVars, feishuVars, sigVars, clientVars, batch, bridge_cfg>>

\* delete_bridge: get_room_by_matrix_id, then delete_room_mapping of the row
AdminDeleteBridge(req, room) ==
    /\ req.endpoint = "delete_bridge"
    /\ LET mapping == CachedLookup(MxKey(room), DbRoomByMatrixId(room))
           Handler(reply) ==
            IF mapping = NoRow
            THEN /\ admin_res' = AdminReply(404, "Bridge not found", TRUE)
                 /\ GetRoomByMatrixId(room)
            ELSE /\ admin_res' = AdminReply(200, "Bridge deleted", TRUE)
                 /\ room_mappings' = {r \in room_mappings : r.id # mapping.id}
                 /\ room_cache' = CacheAfterLookup(MxKey(room), DbRoomByMatrixId(room))
                 /\ room_call' = [key |-> mapping.id,
                                  op |-> "delete_room_mapping",
                                  status |-> "Ok",
                                  row |-> NoRow]
                 /\ UNCHANGED room_next_id
       IN  AdminHandle(req, Handler, UNCHANGED roomVars)
    /\ UNCHANGED <<now, dlVars, feishuVars, sigVars, provVars, clientVars, batch, bridge_cfg>>

\* body.older_than_hours.filter(|value| *value > 0), then Utc::now() - hours;
\* the clock counts hours here
CleanupOlderThan(body) ==
    IF body.older_than_hours # <<>> /\ body.older_than_hours[1] > 0
    THEN <<now - body.older_than_hours[1]>>
    ELSE <<>>

\* body.limit.unwrap_or(200).max(1)
CleanupLimit(body) ==
    IF body.limit = <<>> THEN DefaultCleanupLimit
    ELSE IF body.limit[1] < 1 THEN 1 ELSE body.limit[1]

\* the dry run: list_dead_letters(status, limit, 0), then the rows of the
\* page that are older than the boundary
DryRunCandidates(status, older_than, limit) ==
    LET Older(id) == older_than = <<>> \/ DeadLetterById(id).updated_at < older_than[1]
    IN  SelectSeq(ListDeadLetterIds(status, limit), Older)

\* DeadLetterStore::cleanup_dead_letters: the first `limit` ids, ascending,
\* of the rows with the status that are older than the boundary
CleanupCandidateIds(status, older_than, limit) ==
    LET matching == {r.id : r \in {d \in dead_letters :
                        /\ status = None \/ d.status = status
                        /\ older_than = <<>> \/ d.updated_at < older_than[1]}}
    IN  {id \in matching : Cardinality({other \in matching : other < id}) < limit}

\* cleanup_dead_letters: a dry run lists the candidates, a run deletes them
AdminCleanup(req, body) ==
    /\ req.endpoint = "cleanup_dead_letters"
    /\ LET status == body.status
           older_than == CleanupOlderThan(body)
           limit == CleanupLimit(body)
           Handler(reply) ==
            IF body.dry_run
            THEN LET candidates == DryRunCandidates(status, older_than, limit)
                 IN  /\ admin_res' = CleanupReply(TRUE, Len(candidates), 0, candidates)
                     /\ UNCHANGED dlVars
            ELSE LET candidate_ids == CleanupCandidateIds(status, older_than, limit)
                     deleted == Cardinality(candidate_ids)
                 IN  /\ admin_res' = CleanupReply(FALSE, deleted, deleted, <<>>)
                     /\ dead_letters' = {r \in dead_letters : r.id \notin candidate_ids}
                     /\ UNCHANGED <<dl_next_id, dl_call>>
       IN  AdminHandle([req EXCEPT !.body = body], Handler, UNCHANGED dlVars)
    /\ UNCHANGED <<now, roomVars, feishuVars, sigVars, provVars, clientVars, batch, bridge_cfg>>

(***************************************************************************)
(* FeishuClient: execute_json and get_tenant_access_token                  *)
(***************************************************************************)
ClassifyHttpError(status) ==
    CASE status = 401 -> "auth_failed"
      [] status = 403 -> "permission_denied"
      [] status = 429 -> "rate_limited"
      [] status >= 500 /\ status <= 599 -> "server_transient"
      [] status >= 400 /\ status <= 499 -> "invalid_request"
      [] OTHER -> "unknown"

\* a client that retries whatever the class
RetryableAlways(class) == TRUE

\* FeishuErrorClass::retryable
Retryable(class) == class \in {"rate_limited", "server_transient"}

\* a loop that allows one retry more
MayRetryOnceMore(class, attempts) == Retryable(class) /\ attempts <= max_retries + 1

\* class.retryable() && attempts <= max_retries
MayRetry(class, attempts) == Retryable(class) /\ attempts <= max_retries

NextBackoff(delay) == IF delay * 2 < MaxBackoffMs THEN delay * 2 ELSE MaxBackoffMs

\* Utc::now(), in seconds
NowSecs == now * TickSecs

\* (data.expire - 300).max(60)
ValidForSecs(expire) ==
    IF expire - RefreshMarginSecs > MinValidSecs
    THEN expire - RefreshMarginSecs
    ELSE MinValidSecs

\* a tenant_access_token, known by the second its validity ends
Token(valid_until) == [valid_until |-> valid_until]

IdleCall == [at |-> 0,
             pc |-> "idle",
             token |-> Token(0),
             result |-> None,
             attempts |-> 0,
             delay |-> 0,
             classes |-> <<>>,
             cached |-> FALSE]

\* get_tenant_access_token up to its first await: the cached token while
\* now < token_expires_at, else the request to the token endpoint
TokenCall ==
    /\ api_call.pc \in {"idle", "returned"}
    /\ api_calls < MaxApiCalls
    /\ api_calls' = api_calls + 1
    /\ IF token_expires_at # <<>> /\ NowSecs < token_expires_at[1]
       THEN api_call' = [IdleCall EXCEPT !.pc = "returned", !.result = "Ok",
                                         !.token = access_token[1], !.cached = TRUE,
                                         !.at = NowSecs]
       ELSE api_call' = [IdleCall EXCEPT !.pc = "send", !.delay = DEFAULT_RETRY_BASE_MS]
    /\ UNCHANGED <<max_retries, access_token, token_expires_at, mutexVars>>

\* an attempt of execute_json answered with a failure status
AttemptFails(status) ==
    /\ api_call.pc = "send"
    /\ LET class == ClassifyHttpError(status)
           attempts == api_call.attempts + 1
       IN  api_call' =
             [api_call EXCEPT
                !.attempts = attempts,
                !.classes = Append(@, class),
                !.pc = IF MayRetry(class, attempts) THEN "sleep" ELSE "returned",
                !.result = IF MayRetry(class, attempts) THEN None ELSE "Err",
                !.at = NowSecs]
    /\ UNCHANGED <<max_retries, access_token, token_expires_at, api_calls, mutexVars>>

\* an attempt that does not get a response: send() fails, `?` returns
AttemptRequestFailed ==
    /\ api_call.pc = "send"
    /\ api_call' = [api_call EXCEPT !.attempts = @ + 1, !.pc = "returned",
                                    !.result = "Err", !.at = NowSecs]
    /\ UNCHANGED <<max_retries, access_token, token_expires_at, api_calls, mutexVars>>

\* an attempt answered with code 0: the token and its "expire" are stored
AttemptSucceeds(expire) ==
    /\ api_call.pc = "send"
    /\ access_token' = <<Token(NowSecs + expire)>>
    /\ token_expires_at' = <<NowSecs + ValidForSecs(expire)>>
    /\ api_call' = [api_call EXCEPT !.attempts = @ + 1, !.pc = "returned",
                                    !.result = "Ok", !.token = Token(NowSecs + expire),
                                    !.at = NowSecs]
    /\ UNCHANGED <<max_retries, api_calls, mutexVars>>

\* tokio::time::sleep(delay).await; delay = next_backoff(delay)
RetrySleep ==
    /\ api_call.pc = "sleep"
    /\ api_call' = [api_call EXCEPT !.pc = "send", !.delay = NextBackoff(@)]
    /\ UNCHANGED <<max_retries, access_token, token_expires_at, api_calls, mutexVars>>

(***************************************************************************)
(* replay_dead_letter, one step per await                                  *)
(***************************************************************************)
IdleReplay == [event |-> NoRow,
               id |-> 0,
               error |-> None,
               pc |-> "idle",
               result |-> None,
               call |-> 0]

\* get_dead_letter_by_id, the status test, the payload parse and the start of
\* replay_dead_letter_payload up to its first await
ReplayStart(p, id) ==
    /\ replays[p].pc \in {"idle", "returned"}
    /\ replay_calls < MaxReplayCalls
    /\ replay_calls' = replay_calls + 1
    /\ LET event == DeadLetterById(id)
           call == [IdleReplay EXCEPT !.call = replay_calls + 1, !.id = id, !.event = event]
           Return(result, error) ==
                /\ replays' = [replays EXCEPT ![p] =
                        [call EXCEPT !.pc = "returned", !.result = result, !.error = error]]
                /\ UNCHANGED frames
           Fail(error) ==
                /\ replays' = [replays EXCEPT ![p] =
                        [call EXCEPT !.pc = "mark_failed", !.error = error]]
                /\ UNCHANGED frames
       IN  IF event = NoRow THEN Return("Err", "not found")
           ELSE IF event.status = "replayed" THEN Return("Ok", None)
           ELSE IF ~JsonIsValid(event.payload) THEN Return("Err", "invalid payload json")
           ELSE IF event.event_type # "im.message.receive_v1"
                THEN Fail("unsupported event_type")
           ELSE IF "message" \notin DOMAIN JsonFromStr(event.payload)
                THEN Fail("missing message field")
           ELSE /\ replays' = [replays EXCEPT ![p] = [call EXCEPT !.pc = "handler"]]
                /\ frames' = [frames EXCEPT ![ReplayCtx(p)] =
                                    EnterFrame(JsonFromStr(event.payload).message)]
    /\ UNCHANGED <<now, roomVars, dlVars, msgVars, portals, taskVars, matrixVars, apiVars>>

\* Ok(()) from the handler: mark_dead_letter_replayed(event.id), then Ok(())
ReplayMarkReplayed(p) ==
    /\ replays[p].pc = "handler"
    /\ frames[ReplayCtx(p)].pc = "ok"
    /\ MarkDeadLetterReplayed(replays[p].event.id)
    /\ replays' = [replays EXCEPT ![p].pc = "returned", ![p].result = "Ok"]
    /\ frames' = [frames EXCEPT ![ReplayCtx(p)] = IdleFrame]
    /\ UNCHANGED <<now, roomVars, msgVars, portals, taskVars, replay_calls, matrixVars, apiVars>>

\* Err(err): mark_dead_letter_failed(event.id, err), then Err(err)
ReplayMarkFailed(p) ==
    /\ \/ replays[p].pc = "mark_failed"
       \/ replays[p].pc = "handler" /\ frames[ReplayCtx(p)].pc = "err"
    /\ LET error == IF replays[p].pc = "handler" THEN "handler failed" ELSE replays[p].error
       IN  /\ MarkDeadLetterFailed(replays[p].event.id, error)
           /\ replays' = [replays EXCEPT ![p].pc = "returned", ![p].result = "Err",
                                         ![p].error = error]
    /\ frames' = [frames EXCEPT ![ReplayCtx(p)] = IdleFrame]
    /\ UNCHANGED <<now, roomVars, msgVars, portals, taskVars, replay_calls, matrixVars, apiVars>>

(***************************************************************************)
(* replay_dead_letters of the admin API, one step per await                *)
(***************************************************************************)
BatchResponse(status, success, requested, replayed, failures) ==
    [status |-> status,
     success |-> success,
     requested |-> requested,
     replayed |-> replayed,
     failures |-> failures,
     failed |-> Len(failures)]

IdleBatch == [ids |-> <<>>,
              pc |-> "idle",
              replayed |-> 0,
              failures |-> <<>>,
              idx |-> 1,
              last_call |-> 0,
              results |-> <<>>,
              response |-> BatchResponse(0, FALSE, 0, 0, <<>>)]

\* a response that reports success when anything was replayed
BatchSuccessAny(replayed, failures) == replayed > 0

\* success: failures.is_empty()
BatchSuccess(replayed, failures) == failures = <<>>

\* require_auth, then the ids of the body, or of the pending rows when the
\* body has none
BatchBegin(token, body_ids) ==
    /\ batch.pc \in {"idle", "responded"}
    /\ replays[BatchProc].pc \in {"idle", "returned"}
    /\ IF ~RequireAuth(admin_cfg, token, RequiredScope("replay_dead_letters")).ok
       THEN batch' = [IdleBatch EXCEPT !.pc = "responded",
                                       !.response = BatchResponse(401, FALSE, 0, 0, <<>>)]
       ELSE batch' = [IdleBatch EXCEPT
                        !.pc = "loop",
                        !.last_call = replays[BatchProc].call,
                        !.ids = IF body_ids # <<>> THEN body_ids[1]
                                ELSE ListDeadLetterIds("pending", DefaultReplayLimit)]
    /\ UNCHANGED <<now, roomVars, dlVars, feishuVars, sigVars, provVars, adminVars,
                   clientVars, bridge_cfg>>

\* api.bridge.replay_dead_letter(id) for the next id of the loop
BatchCall ==
    /\ batch.pc = "loop"
    /\ batch.idx <= Len(batch.ids)
    /\ replays[BatchProc].call = batch.last_call
    /\ ReplayStart(BatchProc, batch.ids[batch.idx])

\* the call has returned: Ok counts, Err is pushed to failures
BatchCollect ==
    /\ batch.pc = "loop"
    /\ replays[BatchProc].pc = "returned"
    /\ replays[BatchProc].call # batch.last_call
    /\ LET call == replays[BatchProc]
       IN  batch' = [batch EXCEPT
                !.idx = @ + 1,
                !.last_call = call.call,
                !.results = Append(@, call.result),
                !.replayed = IF call.result = "Ok" THEN @ + 1 ELSE @,
                !.failures = IF call.result = "Ok" THEN @
                             ELSE Append(@, [id |-> call.id, error |-> call.error])]
    /\ UNCHANGED <<now, roomVars, dlVars, feishuVars, sigVars, provVars, adminVars,
                   clientVars, bridge_cfg>>

\* after the loop: the response, 400 unless every replay succeeded
BatchRespond ==
    /\ batch.pc = "loop"
    /\ batch.idx > Len(batch.ids)
    /\ LET success == BatchSuccess(batch.replayed, batch.failures)
       IN  batch' = [batch EXCEPT
                !.pc = "responded",
                !.response = BatchResponse(IF success THEN 200 ELSE 400, success,
                                           Len(batch.ids), batch.replayed, batch.failures)]
    /\ UNCHANGED <<now, roomVars, dlVars, feishuVars, sigVars, provVars, adminVars,
                   clientVars, bridge_cfg>>

(***************************************************************************)
(* process_event and handle_message_event, one step per await              *)
(***************************************************************************)
IdleProcessing == [event |-> None,
                   mapping |-> NoRow,
                   pc |-> "idle",
                   primary |-> 0,
                   found |-> NoRow,
                   result |-> None,
                   attached |-> <<>>,
                   txn |-> None]

\* on_transaction: if let Err(err) = process_event(..) { error!(..) }, and
\* Ok(()) after the loop
OnTransaction(result) == "Ok"

\* Uuid::new_v4(): a value that no earlier call has carried
NewV4 == Len(feishu_sent) + 1

\* the uuid argument of send_message / reply_message; update_message and
\* recall_message take none
DeliveryUuid(event, kind) == IF kind \in {"text", "image"} THEN NewV4 ELSE 0

\* an entry of the log of calls to the Feishu message API
FeishuCall(event, chat, kind, primary, target) ==
    [event |-> event,
     chat |-> chat,
     primary |-> primary,
     kind |-> kind,
     target |-> target,
     uuid |-> DeliveryUuid(event, kind)]

\* SELECT ... FROM message_mappings WHERE matrix_event_id = ?
GetMessageByMatrixId(event_id) ==
    IF \E r \in message_mappings : r.matrix_event_id = event_id
    THEN CHOOSE r \in message_mappings : r.matrix_event_id = event_id
    ELSE NoRow

\* SELECT COUNT(*) FROM processed_events WHERE event_id = ?
IsEventProcessed(event_id) == SourceId("", event_id) \in processed_events

\* a transaction delivers `event`; is_event_processed(event_id) decides
\* whether it is handled at all
ProcessEvent(p, event) ==
    /\ processing[p].pc \in {"idle", "returned"}
    /\ delivered < MaxDeliveries
    /\ delivered' = delivered + 1
    /\ processing' = [processing EXCEPT ![p] =
            IF IsEventProcessed(event)
            THEN [IdleProcessing EXCEPT !.pc = "returned", !.event = event, !.result = "Ok",
                                       !.txn = OnTransaction("Ok")]
            ELSE [IdleProcessing EXCEPT
                    !.pc = IF EventType(event) = "m.room.redaction" THEN "redaction"
                           ELSE "room",
                    !.event = event]]
    /\ UNCHANGED <<now, roomVars, dlVars, msgVars, portals, taskVars, frames,
                   replayVars, feishu_sent, apiVars>>

\* get_room_by_matrix_id(event.room_id): an event of an unbridged room is
\* dropped and only marked as processed
ProcessRoom(p) ==
    /\ processing[p].pc = "room"
    /\ LET room == EventRoom(processing[p].event)
           dbrow == DbRoomByMatrixId(room)
           mapping == CachedLookup(MxKey(room), dbrow)
       IN  /\ room_cache' = CacheAfterLookup(MxKey(room), dbrow)
           /\ processing' = [processing EXCEPT
                    ![p].mapping = mapping,
                    ![p].pc = IF mapping = NoRow THEN "mark"
                              ELSE IF EventEditOf(processing[p].event) # None THEN "edit"
                              ELSE "send"]
    /\ UNCHANGED <<now, room_mappings, room_next_id, room_call, dlVars, msgVars,
                   portals, taskVars, frames, replayVars, feishu_sent, delivered, apiVars>>

\* send_outbound_message(...).await? with a fresh Uuid::new_v4() per call
ProcessSend(p) ==
    /\ processing[p].pc = "send"
    /\ LET event == processing[p].event
           message_id == Len(feishu_sent) + 1
           next(primary) == IF EventAttachments(event) > 0 THEN "attach"
                            ELSE IF primary # 0 THEN "map" ELSE "mark"
       IN  IF EventHasText(event)
           THEN \/ /\ feishu_sent' = Append(feishu_sent,
                            FeishuCall(event, processing[p].mapping.feishu_chat_id,
                                       "text", TRUE, 0))
                   /\ processing' = [processing EXCEPT ![p].primary = message_id,
                                                       ![p].pc = next(message_id)]
                \/ /\ processing' = [processing EXCEPT ![p].pc = "returned",
                                                       ![p].result = "Err",
                                                       ![p].txn = OnTransaction("Err")]
                   /\ UNCHANGED feishu_sent
           ELSE /\ processing' = [processing EXCEPT ![p].pc = next(0)]
                /\ UNCHANGED feishu_sent
    /\ UNCHANGED <<now, roomVars, dlVars, msgVars, portals, taskVars, frames,
                   replayVars, delivered, apiVars>>

\* a primary message that is left empty when the text was empty
PrimaryOfTextOnly(primary, attachment_message_ids) == primary

\* if primary_feishu_message.is_none(): attachment_message_ids.first()
PrimaryAfterAttach(primary, attachment_message_ids) ==
    IF primary = 0 /\ attachment_message_ids # <<>>
    THEN attachment_message_ids[1]
    ELSE primary

\* forward_attachments_to_feishu: a failed attachment is only logged
ProcessAttach(p) ==
    /\ processing[p].pc = "attach"
    /\ LET event == processing[p].event
           message_id == Len(feishu_sent) + 1
           primary == processing[p].primary
           Return(attachment_message_ids) ==
                LET primary_feishu_message ==
                        PrimaryAfterAttach(primary, attachment_message_ids)
                IN  processing' = [processing EXCEPT
                        ![p].attached = attachment_message_ids,
                        ![p].primary = primary_feishu_message,
                        ![p].pc = IF primary_feishu_message # 0 THEN "map" ELSE "mark"]
       IN  \/ /\ feishu_sent' = Append(feishu_sent,
                        FeishuCall(event, processing[p].mapping.feishu_chat_id,
                                   "image", primary = 0, 0))
              /\ Return(<<message_id>>)
           \/ /\ Return(<<>>)
              /\ UNCHANGED feishu_sent
    /\ UNCHANGED <<now, roomVars, dlVars, msgVars, portals, taskVars, frames,
                   replayVars, delivered, apiVars>>

\* create_message_mapping: a failure is only logged
ProcessMap(p) ==
    /\ processing[p].pc = "map"
    /\ CreateMessageMapping(MessageRow(processing[p].event, processing[p].primary))
    /\ processing' = [processing EXCEPT ![p].pc = "mark"]
    /\ UNCHANGED <<now, roomVars, dlVars, redacted, processed_events, matrix_events, portals,
                   taskVars, frames, replayVars, feishu_sent, delivered, apiVars>>

\* handle_edit_message up to get_message_by_matrix_id: nothing is done when
\* edits are not bridged or the target has no mapping
ProcessEdit(p) ==
    /\ processing[p].pc = "edit"
    /\ LET target == GetMessageByMatrixId(EventEditOf(processing[p].event))
       IN  processing' = [processing EXCEPT
                ![p].found = IF bridge_cfg.bridge_matrix_edit THEN target ELSE NoRow,
                ![p].pc = IF bridge_cfg.bridge_matrix_edit /\ target # NoRow
                          THEN "update" ELSE "mark"]
    /\ UNCHANGED <<now, roomVars, dlVars, msgVars, portals, taskVars, frames,
                   replayVars, feishu_sent, delivered, apiVars>>

\* an update addressed by the row id of the mapping
UpdateTargetRowId(target) == target.id

\* the message an edit updates: target.feishu_message_id
UpdateTarget(target) == target.feishu_message_id

\* update_message(&target.feishu_message_id, ...).await?
ProcessUpdate(p) ==
    /\ processing[p].pc = "update"
    /\ \/ /\ feishu_sent' = Append(feishu_sent,
                    FeishuCall(processing[p].event, processing[p].mapping.feishu_chat_id,
                               "update", FALSE, UpdateTarget(processing[p].found)))
          /\ processing' = [processing EXCEPT ![p].pc = "mark"]
       \/ /\ processing' = [processing EXCEPT ![p].pc = "returned", ![p].result = "Err",
                                         ![p].txn = OnTransaction("Err")]
          /\ UNCHANGED feishu_sent
    /\ UNCHANGED <<now, roomVars, dlVars, msgVars, portals, taskVars, frames,
                   replayVars, delivered, apiVars>>

\* handle_redaction_event up to get_message_by_matrix_id: nothing is done when
\* redactions are not bridged or the redacted event has no mapping
ProcessRedaction(p) ==
    /\ processing[p].pc = "redaction"
    /\ LET mapping == GetMessageByMatrixId(EventRedacts(processing[p].event))
       IN  processing' = [processing EXCEPT
                ![p].found = IF bridge_cfg.bridge_matrix_redactions THEN mapping ELSE NoRow,
                ![p].pc = IF bridge_cfg.bridge_matrix_redactions /\ mapping # NoRow
                          THEN "recall" ELSE "mark"]
    /\ UNCHANGED <<now, roomVars, dlVars, msgVars, portals, taskVars, frames,
                   replayVars, feishu_sent, delivered, apiVars>>

\* recall_message(&mapping.feishu_message_id).await?
ProcessRecall(p) ==
    /\ processing[p].pc = "recall"
    /\ \/ /\ feishu_sent' = Append(feishu_sent,
                    FeishuCall(processing[p].event, None, "recall", FALSE,
                               processing[p].found.feishu_message_id))
          /\ processing' = [processing EXCEPT ![p].pc = "unmap"]
       \/ /\ processing' = [processing EXCEPT ![p].pc = "returned", ![p].result = "Err",
                                         ![p].txn = OnTransaction("Err")]
          /\ UNCHANGED feishu_sent
    /\ UNCHANGED <<now, roomVars, dlVars, msgVars, portals, taskVars, frames,
                   replayVars, delivered, apiVars>>

\* delete_message_mapping(mapping.id): a failure is only logged
ProcessUnmap(p) ==
    /\ processing[p].pc = "unmap"
    /\ message_mappings' = MessagesAfterDelete(processing[p].found.id)
    /\ processing' = [processing EXCEPT ![p].pc = "mark"]
    /\ UNCHANGED <<now, roomVars, dlVars, msg_next_id, redacted, processed_events,
                   matrix_events, portals, taskVars, frames, replayVars, feishu_sent,
                   delivered, apiVars>>

\* mark_event_processed(...).await?: event_id is UNIQUE in processed_events
ProcessMark(p) ==
    /\ processing[p].pc = "mark"
    /\ IF IsEventProcessed(processing[p].event)
       THEN /\ processing' = [processing EXCEPT ![p].pc = "returned", ![p].result = "Err",
                                         ![p].txn = OnTransaction("Err")]
            /\ UNCHANGED processed_events
       ELSE /\ processed_events' = processed_events \cup {SourceId("", processing[p].event)}
            /\ processing' = [processing EXCEPT ![p].pc = "returned", ![p].result = "Ok",
                                         ![p].txn = OnTransaction("Ok")]
    /\ UNCHANGED <<now, roomVars, dlVars, message_mappings, msg_next_id, redacted, matrix_events, portals,
                   taskVars, frames, replayVars, feishu_sent, delivered, apiVars>>

Tick ==
    /\ now < MaxClock
    /\ now' = now + 1

InitRoomStore ==
    /\ room_mappings = {}
    /\ room_next_id = 1
    /\ room_cache = <<>>
    /\ room_call = [key |-> None, op |-> "none", status |-> "Ok", row |-> NoRow]

InitDeadLetterStore ==
    /\ dead_letters = {}
    /\ dl_next_id = 1
    /\ dl_call = [payload |-> None, at |-> 0, key |-> None, op |-> "none", error |-> None]

InitFeishuSide ==
    /\ message_mappings = {}
    /\ msg_next_id = 1
    /\ redacted = {}
    /\ processed_events = {}
    /\ matrix_events = <<>>
    /\ portals = {}
    /\ tasks = <<>>
    /\ chat_queues = {}
    /\ lock_holder = [chat \in Chats |-> 0]
    /\ lock_waiters = [chat \in Chats |-> <<>>]
    /\ frames = [c \in Ctxs |-> IdleFrame]
    /\ replays = [p \in ReplayProcs |-> IdleReplay]
    /\ replay_calls = 0
    /\ feishu_sent = <<>>
    /\ processing = [p \in MatrixProcs |-> IdleProcessing]
    /\ delivered = 0

\* no request has been made
InitWebhookIdle ==
    /\ webhook_req = NoRequest
    /\ webhook_res = WebhookReply(0, FALSE)

\* FeishuClient::new
InitClient ==
    /\ access_token = <<>>
    /\ token_expires_at = <<>>
    /\ api_call = IdleCall
    /\ api_calls = 0
    /\ client_holder = <<>>
    /\ client_waiters = <<>>

\* no admin request has been made
InitAdminIdle ==
    /\ admin_req = AdminRequest("none", None, TRUE)
    /\ admin_res = AdminReply(0, "", FALSE)

InitProvisioning ==
    /\ pending_requests = <<>>
    /\ prov_call = ProvCall("none", None, "Ok", NoRequestRow)
    /\ waits = [p \in WaitProcs |-> IdleWait]
    /\ wait_calls = 0

\* a deployment without encrypt_key, listen_secret and verification_token
InitApi ==
    /\ webhook_cfg = [encrypt_key |-> None, listen_secret |-> "", verification_token |-> None]
    /\ InitWebhookIdle
    /\ InitProvisioning
    /\ InitAdminIdle
    /\ admin_cfg = [delete_token |-> "t3", write_token |-> "t2", read_token |-> "t1"]
    /\ InitClient
    /\ max_retries = DEFAULT_MAX_RETRIES
    /\ batch = IdleBatch
    /\ bridge_cfg = DefaultBridgeConfig

(***************************************************************************)
(* SpecRoom: the room store called by its clients                          *)
(***************************************************************************)
InitRoom ==
    /\ now = 0
    /\ InitRoomStore
    /\ InitDeadLetterStore
    /\ InitFeishuSide
    /\ InitApi

RoomGetByMatrix ==
    \E room \in Rooms : GetRoomByMatrixId(room) /\ UNCHANGED <<now, dlVars, feishuVars, apiVars>>
RoomGetByFeishu ==
    \E chat \in Chats : GetRoomByFeishuId(chat) /\ UNCHANGED <<now, dlVars, feishuVars, apiVars>>
RoomCreate ==
    \E room \in Rooms, chat \in Chats :
        CreateRoomMapping(room, chat, None) /\ UNCHANGED <<now, dlVars, feishuVars, apiVars>>
RoomUpdate ==
    \E mapping \in room_mappings, name \in ChatNames :
        /\ name # mapping.feishu_chat_name
        /\ UpdateRoomMapping(mapping, name)
        /\ UNCHANGED <<now, dlVars, feishuVars, apiVars>>
RoomDelete ==
    \E mapping \in room_mappings :
        DeleteRoomMapping(mapping.id) /\ UNCHANGED <<now, dlVars, feishuVars, apiVars>>
NextRoom ==
    \/ RoomGetByMatrix
    \/ RoomGetByFeishu
    \/ RoomCreate
    \/ RoomUpdate
    \/ RoomDelete

SpecRoom == InitRoom /\ [][NextRoom]_vars

(***************************************************************************)
(* SpecDeadLetter: the dead-letter store called by its clients             *)
(***************************************************************************)
InitDeadLetter ==
    /\ now = 0
    /\ InitRoomStore
    /\ InitDeadLetterStore
    /\ InitFeishuSide
    /\ InitApi

DlRecord ==
    \E event_type \in {"im.message.receive_v1"}, dedupe_key \in DedupeKeys,
       payload \in Payloads, error \in Errors :
        /\ RecordDeadLetter(event_type, dedupe_key, PayloadChat(payload), payload, error)
        /\ UNCHANGED <<now, roomVars, feishuVars, apiVars>>
DlMarkReplayed ==
    \E id \in DeadLetterIds :
        /\ \A r \in dead_letters : r.id = id => r.replay_count < MaxReplayCount
        /\ MarkDeadLetterReplayed(id)
        /\ UNCHANGED <<now, roomVars, feishuVars, apiVars>>
DlMarkFailed ==
    \E id \in DeadLetterIds, error \in Errors :
        /\ MarkDeadLetterFailed(id, error)
        /\ UNCHANGED <<now, roomVars, feishuVars, apiVars>>
DlTick == Tick /\ UNCHANGED <<roomVars, dlVars, feishuVars, apiVars>>
NextDeadLetter ==
    \/ DlRecord
    \/ DlMarkReplayed
    \/ DlMarkFailed
    \/ DlTick

SpecDeadLetter == InitDeadLetter /\ [][NextDeadLetter]_vars

(***************************************************************************)
(* SpecWebhook: the webhook front end and its queued handlers.  The chat   *)
(* oc_1 is bridged to !r1, the chat oc_2 is not bridged.                   *)
(***************************************************************************)
InitBridged ==
    /\ now = 0
    /\ room_mappings = {RoomRow(1, "!r1", "oc_1", None, 0)}
    /\ room_next_id = 2
    /\ room_cache = <<>>
    /\ room_call = [key |-> None, op |-> "none", status |-> "Ok", row |-> NoRow]
    /\ InitDeadLetterStore
    /\ InitFeishuSide
    /\ InitApi

WebhookEvent == \E msg \in FeishuMsgs : WebhookAccept(msg)
WebhookRecalled == \E msg \in FeishuMsgs : WebhookAcceptRecalled(msg)
WebhookTaskStart == \E i \in 1..MaxTasks : TaskStart(i)
WebhookTaskFinish == \E i \in 1..MaxTasks : TaskFinish(i)
FeishuCheck == \E c \in Ctxs : HandlerCheck(c)
FeishuPortal == \E c \in Ctxs : HandlerPortal(c)
FeishuSendText == \E c \in Ctxs : HandlerSendText(c)
FeishuAttach == \E c \in Ctxs : HandlerAttach(c)
FeishuMap == \E c \in Ctxs : HandlerMap(c)
FeishuRecallLookup == \E c \in Ctxs : RecallLookup(c)
FeishuRecallRedact == \E c \in Ctxs : RecallRedact(c)
FeishuRecallDelete == \E c \in Ctxs : RecallDelete(c)
NextWebhook ==
    \/ WebhookEvent
    \/ WebhookTaskStart
    \/ WebhookTaskFinish
    \/ FeishuCheck
    \/ FeishuPortal
    \/ FeishuSendText
    \/ FeishuAttach
    \/ FeishuMap
    \/ WebhookRecalled
    \/ FeishuRecallLookup
    \/ FeishuRecallRedact
    \/ FeishuRecallDelete

SpecWebhook == InitBridged /\ [][NextWebhook]_vars

(***************************************************************************)
(* SpecDisband: messages of the chats arrive, then a chat is disbanded;    *)
(* Feishu sends no message of a chat after its im.chat.disbanded_v1.       *)
(***************************************************************************)
Disbanded(chat) ==
    \E i \in DOMAIN tasks : tasks[i].kind = "disbanded" /\ tasks[i].chat = chat

DisbandMessage ==
    \E msg \in FeishuMsgs : ~Disbanded(MsgChat(msg)) /\ WebhookAccept(msg)
DisbandEvent == \E chat \in Chats : ~Disbanded(chat) /\ WebhookAcceptDisbanded(chat)
FeishuDisbandLookup == \E i \in 1..MaxTasks : DisbandLookup(i)
FeishuDisbandHistory == \E i \in 1..MaxTasks : DisbandHistory(i)
FeishuDisbandRoom == \E i \in 1..MaxTasks : DisbandRoom(i)
NextDisband ==
    \/ DisbandMessage
    \/ DisbandEvent
    \/ WebhookTaskStart
    \/ WebhookTaskFinish
    \/ FeishuCheck
    \/ FeishuPortal
    \/ FeishuSendText
    \/ FeishuAttach
    \/ FeishuMap
    \/ FeishuDisbandLookup
    \/ FeishuDisbandHistory
    \/ FeishuDisbandRoom

SpecDisband == InitBridged /\ [][NextDisband]_vars

(***************************************************************************)
(* FeishuService.client: Arc<Mutex<FeishuClient>>.  Every call of the      *)
(* service locks the client, awaits the API call and drops the guard; the  *)
(* tokio mutex serves its waiters first come, first served.                *)
(***************************************************************************)
NoHolder == <<>>
RestOfMutex ==
    <<now, roomVars, dlVars, feishuVars, sigVars, provVars, adminVars, max_retries,
      access_token, token_expires_at, api_call, api_calls, batch, bridge_cfg>>

ClientWaits(u) == \E k \in DOMAIN client_waiters : client_waiters[k] = u

\* self.client.lock().await by the caller u
ClientLock(u) ==
    /\ client_holder # u
    /\ ~ClientWaits(u)
    /\ IF client_holder = NoHolder
       THEN /\ client_holder' = u
            /\ UNCHANGED client_waiters
       ELSE /\ client_waiters' = Append(client_waiters, u)
            /\ UNCHANGED client_holder
    /\ UNCHANGED RestOfMutex

\* a guard that is never dropped
ClientKept(u) == u

\* the guard of u is dropped when the call returns: the mutex goes to the
\* caller that has waited longest
ClientAfterRelease(u) ==
    IF client_waiters = <<>> THEN NoHolder ELSE Head(client_waiters)

ClientUnlock(u) ==
    /\ client_holder = u
    /\ client_holder' = ClientAfterRelease(u)
    /\ client_waiters' = IF client_waiters = <<>> THEN <<>> ELSE Tail(client_waiters)
    /\ UNCHANGED RestOfMutex

(***************************************************************************)
(* SpecReplay: dead letters are recorded and the admin API workers replay  *)
(* them, each replay running the handler of the recorded event.            *)
(***************************************************************************)
ReplayRecord ==
    \E event_type \in EventTypes, dedupe_key \in {"k1"},
       payload \in Payloads, error \in {"e1"} :
        /\ RecordDeadLetter(event_type, dedupe_key, PayloadChat(payload), payload, error)
        /\ UNCHANGED <<now, roomVars, feishuVars, apiVars>>
ReplayCall == \E p \in ReplayProcs, id \in DeadLetterIds : ReplayStart(p, id)
ReplaySucceeded == \E p \in ReplayProcs : ReplayMarkReplayed(p)
ReplayFailed == \E p \in ReplayProcs : ReplayMarkFailed(p)
NextReplay ==
    \/ ReplayRecord
    \/ ReplayCall
    \/ ReplaySucceeded
    \/ ReplayFailed
    \/ FeishuCheck
    \/ FeishuPortal
    \/ FeishuSendText
    \/ FeishuAttach
    \/ FeishuMap

SpecReplay == InitBridged /\ [][NextReplay]_vars

(***************************************************************************)
(* SpecQueue: webhook tasks queue on their chats' locks while an admin API *)
(* worker replays dead letters.  Every handler calls get_chat through the  *)
(* shared client; the front end locks the client to verify the token of a  *)
(* request, with no await while it holds it.  The chat_queues map mutex is *)
(* held only for the lookup in queue_chat_task, with no await inside, so   *)
(* the lookup is one step.  tokio polls every task that can run, and every *)
(* API call returns.                                                       *)
(***************************************************************************)
QueueProc == 1
\* the webhook events carry the text om_3 of oc_2; the dead letter holds om_3
\* or om_1, a message of another chat
QueueMsgs == {"om_3"}
QueueDeadMsgs == {"om_1", "om_3"}

\* handle_feishu_message called by c; get_chat holds the client for its call
QueueHandlerStep(c) ==
    \/ frames[c].pc = "portal" /\ ClientLock(c)
    \/ client_holder = c /\ HandlerPortal(c)
    \/ frames[c].pc # "portal" /\ ClientUnlock(c)
    \/ /\ client_holder # c
       /\ \/ HandlerCheck(c)
          \/ HandlerSendText(c)
          \/ HandlerAttach(c)
          \/ HandlerMap(c)

\* the steps of the queued task i: the lock, the handler, the end of the task
QueueTaskStep(i) ==
    \/ TaskStart(i)
    \/ QueueHandlerStep(TaskCtx(i))
    \/ client_holder # TaskCtx(i) /\ TaskFinish(i)

\* the steps of replay_dead_letter of worker p once it has called the handler
QueueReplayStep(p) ==
    \/ QueueHandlerStep(ReplayCtx(p))
    \/ /\ client_holder # ReplayCtx(p)
       /\ \/ ReplayMarkReplayed(p)
          \/ ReplayMarkFailed(p)

QueueEvent == client_holder = NoHolder /\ \E msg \in QueueMsgs : WebhookAccept(msg)
QueueTask == \E i \in 1..MaxTasks : QueueTaskStep(i)
\* one receive event is recorded as a dead letter
QueueRecord ==
    /\ dead_letters = {}
    /\ \E msg \in QueueDeadMsgs :
            RecordDeadLetter("im.message.receive_v1", "k1", MsgChat(msg),
                             [message |-> msg], "e1")
    /\ UNCHANGED <<now, roomVars, feishuVars, apiVars>>
\* one replay_dead_letter call for the recorded row
QueueReplayCall ==
    /\ replay_calls = 0
    /\ \E event \in dead_letters : ReplayStart(QueueProc, event.id)
QueueReplay == QueueReplayStep(QueueProc)
NextQueue ==
    \/ QueueEvent
    \/ QueueTask
    \/ QueueRecord
    \/ QueueReplayCall
    \/ QueueReplay

SpecQueue ==
    /\ InitBridged
    /\ [][NextQueue]_vars
    /\ \A i \in 1..MaxTasks : WF_vars(QueueTaskStep(i))
    /\ WF_vars(QueueReplay)

(***************************************************************************)
(* SpecMatrix: the appservice workers deliver Matrix events of the bridged *)
(* room to process_event; deliveries of one event may overlap.             *)
(***************************************************************************)
MatrixDeliver == \E p \in MatrixProcs, event \in MatrixEvents : ProcessEvent(p, event)
MatrixRoom == \E p \in MatrixProcs : ProcessRoom(p)
MatrixSend == \E p \in MatrixProcs : ProcessSend(p)
MatrixAttach == \E p \in MatrixProcs : ProcessAttach(p)
MatrixMap == \E p \in MatrixProcs : ProcessMap(p)
MatrixMark == \E p \in MatrixProcs : ProcessMark(p)
NextMatrix ==
    \/ MatrixDeliver
    \/ MatrixRoom
    \/ MatrixSend
    \/ MatrixAttach
    \/ MatrixMap
    \/ MatrixMark

SpecMatrix == InitBridged /\ [][NextMatrix]_vars

(***************************************************************************)
(* SpecSignature: requests reach /webhook of a bridge configured with or   *)
(* without signing key and verification token.                             *)
(***************************************************************************)
SignatureKinds == {"missing", "valid", "valid_upper", "valid_prefixed", "wrong_key",
                   "other_body"}

\* the X-Lark-Signature header of a sender that knows the key, or does not
SenderSignature(kind, key, timestamp, nonce, body) ==
    LET valid == Sha256Hex(timestamp, nonce, key, body)
    IN  CASE kind = "missing" -> NoSignature
          [] kind = "valid" -> valid
          [] kind = "valid_upper" -> [valid EXCEPT !.form = "upper"]
          [] kind = "valid_prefixed" -> [valid EXCEPT !.form = "prefixed"]
          [] kind = "wrong_key" -> Sha256Hex(timestamp, nonce, "wrong", body)
          [] kind = "other_body" -> Sha256Hex(timestamp, nonce, key, <<"text", "other">>)

InitSignature ==
    /\ now = 0
    /\ InitRoomStore
    /\ InitDeadLetterStore
    /\ InitFeishuSide
    /\ webhook_cfg \in WebhookConfigs
    /\ InitWebhookIdle
    /\ InitProvisioning
    /\ InitAdminIdle
    /\ admin_cfg = [delete_token |-> "t3", write_token |-> "t2", read_token |-> "t1"]
    /\ InitClient
    /\ max_retries = DEFAULT_MAX_RETRIES
    /\ batch = IdleBatch
    /\ bridge_cfg = DefaultBridgeConfig

SigRequest ==
    \E timestamp \in {None, "t1"}, nonce \in {None, "n1"}, kind \in SignatureKinds,
       body \in WebhookBodies :
        HandleWebhook([timestamp |-> timestamp, nonce |-> nonce, body |-> body,
                       signature |-> SenderSignature(kind,
                            IF CallbackSignatureKey(webhook_cfg) = None
                            THEN "ls" ELSE CallbackSignatureKey(webhook_cfg),
                            timestamp, nonce, body)])
NextSignature ==
    \/ SigRequest

SpecSignature == InitSignature /\ [][NextSignature]_vars

(***************************************************************************)
(* SpecProvisioning: bridge requests are made, approved, declined and      *)
(* expired while callers wait for them.  Every started step of a           *)
(* wait_for_approval call is eventually taken: the runtime polls a ready   *)
(* task, the mutex is fair and a sleep ends.                               *)
(***************************************************************************)
ProvRest == <<roomVars, dlVars, feishuVars, sigVars, adminVars, clientVars, batch, bridge_cfg>>

ProvRequest ==
    \E chat \in ProvChats, room \in Rooms, requestor \in Requestors :
        RequestBridge(chat, room, requestor) /\ UNCHANGED <<now, ProvRest>>
ProvApproval ==
    \E chat \in ProvChats, approved \in BOOLEAN :
        MarkApproval(chat, approved) /\ UNCHANGED <<now, ProvRest>>
ProvCleanup == CleanupExpired /\ UNCHANGED <<now, ProvRest>>
ProvWaitStart ==
    \E p \in WaitProcs, chat \in ProvChats : WaitStart(p, chat) /\ UNCHANGED <<now, ProvRest>>
ProvWaitCheck == \E p \in WaitProcs : WaitCheck(p) /\ UNCHANGED <<now, ProvRest>>
ProvWaitRemove == \E p \in WaitProcs : WaitRemove(p) /\ UNCHANGED <<now, ProvRest>>
ProvWaitExpire == \E p \in WaitProcs : WaitExpire(p) /\ UNCHANGED <<now, ProvRest>>
ProvWaitSleep == \E p \in WaitProcs : WaitSleep(p) /\ UNCHANGED <<now, ProvRest>>
ProvTick == Tick /\ UNCHANGED <<ProvRest, provVars>>
NextProvisioning ==
    \/ ProvRequest
    \/ ProvApproval
    \/ ProvCleanup
    \/ ProvWaitStart
    \/ ProvWaitCheck
    \/ ProvWaitRemove
    \/ ProvWaitExpire
    \/ ProvWaitSleep
    \/ ProvTick

InitProv ==
    /\ now = 0
    /\ InitRoomStore
    /\ InitDeadLetterStore
    /\ InitFeishuSide
    /\ InitApi

SpecProvisioning ==
    /\ InitProv
    /\ [][NextProvisioning]_vars
    /\ \A p \in WaitProcs : WF_vars(WaitStep(p) /\ UNCHANGED <<now, ProvRest>>)

(***************************************************************************)
(* SpecAdmin: requests to the admin API of a bridge whose three tokens are *)
(* configured in any way, equal tokens included.  !r1 is bridged and dead  *)
(* letters are recorded meanwhile.                                         *)
(***************************************************************************)
\* every way the three tokens can coincide or differ, up to their names
AdminConfigs ==
    [read_token : {"t1"}, write_token : AdminTokens, delete_token : AdminTokens]

\* the bearer of a request: none, a configured value, or an unknown one
BearerTokens == {None, "tx"} \cup AdminTokens

InitAdmin ==
    /\ now = 0
    /\ room_mappings = {RoomRow(1, "!r1", "oc_1", None, 0)}
    /\ room_next_id = 2
    /\ room_cache = <<>>
    /\ room_call = [key |-> None, op |-> "none", status |-> "Ok", row |-> NoRow]
    /\ InitDeadLetterStore
    /\ InitFeishuSide
    /\ webhook_cfg = [encrypt_key |-> None, listen_secret |-> "", verification_token |-> None]
    /\ InitWebhookIdle
    /\ InitProvisioning
    /\ InitAdminIdle
    /\ admin_cfg \in AdminConfigs
    /\ InitClient
    /\ max_retries = DEFAULT_MAX_RETRIES
    /\ batch = IdleBatch
    /\ bridge_cfg = DefaultBridgeConfig

AdminReadRequest ==
    \E endpoint \in {"provisioning_status", "list_mappings"}, token \in BearerTokens :
        AdminRead(AdminRequest(endpoint, token, TRUE))
AdminCreateRequest ==
    \E token \in BearerTokens, body_ok \in BOOLEAN, room \in Rooms :
        AdminCreateBridge(AdminRequest("create_bridge", token, body_ok),
                          "oc_2", room, "@u1")
AdminDeleteRequest ==
    \E token \in BearerTokens :
        AdminDeleteBridge(AdminRequest("delete_bridge", token, TRUE), "!r1")
AdminCleanupRequest ==
    \E token \in BearerTokens, body_ok \in BOOLEAN, dry_run \in BOOLEAN :
        AdminCleanup(AdminRequest("cleanup_dead_letters", token, body_ok),
                     CleanupBody(None, <<>>, <<>>, dry_run))
AdminRecord ==
    /\ dl_next_id <= MaxDeadLetterId
    /\ RecordDeadLetter("im.message.receive_v1", "k1", "oc_1", [message |-> "om_1"], "e1")
    /\ UNCHANGED <<now, roomVars, feishuVars, apiVars>>
NextAdmin ==
    \/ AdminReadRequest
    \/ AdminCreateRequest
    \/ AdminDeleteRequest
    \/ AdminCleanupRequest
    \/ AdminRecord

SpecAdmin == InitAdmin /\ [][NextAdmin]_vars

(***************************************************************************)
(* SpecClient: get_tenant_access_token is called again and again while the *)
(* clock advances; the token endpoint answers each attempt with a token, a *)
(* failure status, or not at all.  A started call keeps being polled.      *)
(***************************************************************************)
ClientRest == <<roomVars, dlVars, feishuVars, sigVars, provVars, adminVars, batch,
               bridge_cfg>>

InitClientSpec ==
    /\ now = 0
    /\ InitRoomStore
    /\ InitDeadLetterStore
    /\ InitFeishuSide
    /\ webhook_cfg = [encrypt_key |-> None, listen_secret |-> "", verification_token |-> None]
    /\ InitWebhookIdle
    /\ InitProvisioning
    /\ InitAdminIdle
    /\ admin_cfg = [delete_token |-> "t3", write_token |-> "t2", read_token |-> "t1"]
    /\ InitClient
    /\ max_retries \in {0, 1, DEFAULT_MAX_RETRIES}
    /\ batch = IdleBatch
    /\ bridge_cfg = DefaultBridgeConfig

ClientCall == TokenCall /\ UNCHANGED <<now, ClientRest>>
ClientFailure ==
    \E status \in HttpStatuses : AttemptFails(status) /\ UNCHANGED <<now, ClientRest>>
ClientRequestFailed == AttemptRequestFailed /\ UNCHANGED <<now, ClientRest>>
ClientSuccess ==
    \E expire \in TokenExpires : AttemptSucceeds(expire) /\ UNCHANGED <<now, ClientRest>>
ClientSleep == RetrySleep /\ UNCHANGED <<now, ClientRest>>
ClientTick == Tick /\ UNCHANGED <<ClientRest, clientVars>>
NextClient ==
    \/ ClientCall
    \/ ClientFailure
    \/ ClientRequestFailed
    \/ ClientSuccess
    \/ ClientSleep
    \/ ClientTick

SpecClient ==
    /\ InitClientSpec
    /\ [][NextClient]_vars
    /\ WF_vars(ClientFailure \/ ClientRequestFailed \/ ClientSuccess)
    /\ WF_vars(ClientSleep)

(***************************************************************************)
(* SpecBatch: a worker of the admin API serves batch replays while another *)
(* replays single dead letters; !r1 is bridged, and the write token is t2. *)
(***************************************************************************)
BatchRecord ==
    \E event_type \in EventTypes :
        /\ RecordDeadLetter(event_type, "k1", "oc_1", [message |-> "om_1"], "e1")
        /\ UNCHANGED <<now, roomVars, feishuVars, apiVars>>
BatchRequest ==
    \E token \in {"t1", "t2"}, body_ids \in {<<>>} \cup {<<ids>> : ids \in BatchIdLists} :
        BatchBegin(token, body_ids)
BatchOtherReplay == ReplayStart(2, 1)
NextBatch ==
    \/ BatchRecord
    \/ BatchRequest
    \/ BatchCall
    \/ BatchCollect
    \/ BatchRespond
    \/ BatchOtherReplay
    \/ ReplaySucceeded
    \/ ReplayFailed
    \/ FeishuCheck
    \/ FeishuPortal
    \/ FeishuSendText
    \/ FeishuAttach
    \/ FeishuMap

SpecBatch == InitBridged /\ [][NextBatch]_vars

(***************************************************************************)
(* SpecCleanup: dead letters are recorded, replayed and cleaned up through *)
(* the admin API while the clock, which counts hours here, advances.  The  *)
(* delete token is t3.                                                     *)
(***************************************************************************)
CleanupBodies ==
    {CleanupBody(status, older_than_hours, limit, dry_run) :
        status \in {None, "pending"}, older_than_hours \in {<<>>, <<1>>},
        limit \in {<<>>, <<1>>}, dry_run \in BOOLEAN}
CleanupRecord ==
    \E dedupe_key \in DedupeKeys :
        /\ dl_next_id <= MaxDeadLetterId
        /\ RecordDeadLetter("im.message.receive_v1", dedupe_key, "oc_1",
                            [message |-> "om_1"], "e1")
        /\ UNCHANGED <<now, roomVars, feishuVars, apiVars>>
CleanupMarkReplayed ==
    \E id \in DeadLetterIds :
        /\ \E r \in dead_letters :
                r.id = id /\ r.status = "pending" /\ r.replay_count = 0
        /\ MarkDeadLetterReplayed(id)
        /\ UNCHANGED <<now, roomVars, feishuVars, apiVars>>
CleanupRequest ==
    \E body \in CleanupBodies :
        AdminCleanup(AdminRequest("cleanup_dead_letters", "t3", TRUE), body)
CleanupTick ==
    /\ now <= MaxClock
    /\ now' = now + 1
    /\ UNCHANGED <<roomVars, dlVars, feishuVars, apiVars>>
NextCleanup ==
    \/ CleanupRecord
    \/ CleanupMarkReplayed
    \/ CleanupRequest
    \/ CleanupTick

SpecCleanup == InitDeadLetter /\ [][NextCleanup]_vars

(***************************************************************************)
(* SpecEvents: the Matrix->Feishu processor is given messages, an edit, a  *)
(* redaction and a notice of the bridged room !r1, under any setting of    *)
(* the bridge flags.                                                       *)
(***************************************************************************)
BridgeConfigs ==
    [bridge_matrix_edit : BOOLEAN, bridge_matrix_redactions : BOOLEAN,
     blocked_matrix_msgtypes : {{}, {"m.notice"}}, enable_failure_degrade : BOOLEAN]
InitEvents ==
    /\ now = 0
    /\ room_mappings = {RoomRow(1, "!r1", "oc_1", None, 0)}
    /\ room_next_id = 2
    /\ room_cache = <<>>
    /\ room_call = [key |-> None, op |-> "none", status |-> "Ok", row |-> NoRow]
    /\ InitDeadLetterStore
    /\ InitFeishuSide
    /\ webhook_cfg = [encrypt_key |-> None, listen_secret |-> "", verification_token |-> None]
    /\ InitWebhookIdle
    /\ InitProvisioning
    /\ InitAdminIdle
    /\ admin_cfg = [delete_token |-> "t3", write_token |-> "t2", read_token |-> "t1"]
    /\ InitClient
    /\ max_retries = DEFAULT_MAX_RETRIES
    /\ batch = IdleBatch
    /\ bridge_cfg \in BridgeConfigs
EventsDeliver ==
    \E p \in MatrixProcs, event \in {"$e1"} \cup RelatedEvents : ProcessEvent(p, event)
EventsRoom == \E p \in MatrixProcs : ProcessRoom(p)
EventsSend == \E p \in MatrixProcs : ProcessSend(p)
EventsMap == \E p \in MatrixProcs : ProcessMap(p)
EventsEdit == \E p \in MatrixProcs : ProcessEdit(p)
EventsUpdate == \E p \in MatrixProcs : ProcessUpdate(p)
EventsRedaction == \E p \in MatrixProcs : ProcessRedaction(p)
EventsRecall == \E p \in MatrixProcs : ProcessRecall(p)
EventsUnmap == \E p \in MatrixProcs : ProcessUnmap(p)
EventsMark == \E p \in MatrixProcs : ProcessMark(p)
NextEvents ==
    \/ EventsDeliver
    \/ EventsRoom
    \/ EventsSend
    \/ EventsMap
    \/ EventsEdit
    \/ EventsUpdate
    \/ EventsRedaction
    \/ EventsRecall
    \/ EventsUnmap
    \/ EventsMark

SpecEvents == InitEvents /\ [][NextEvents]_vars

(***************************************************************************)
(* SpecTransaction: one appservice transaction of the room !r1 carries a   *)
(* message, then its edit, then its redaction; on_transaction hands each   *)
(* event to process_event once the call for the event before has returned. *)
(***************************************************************************)
Transaction == <<"$e1", "$x1", "$r1">>
TxnProc == 1

\* for event in events { process_event(matrix_event).await }
TransactionNext ==
    /\ delivered < Len(Transaction)
    /\ ProcessEvent(TxnProc, Transaction[delivered + 1])
NextTransaction ==
    \/ TransactionNext
    \/ EventsRoom
    \/ EventsSend
    \/ EventsMap
    \/ EventsEdit
    \/ EventsUpdate
    \/ EventsRedaction
    \/ EventsRecall
    \/ EventsUnmap
    \/ EventsMark

SpecTransaction == InitEvents /\ [][NextTransaction]_vars

(***************************************************************************)
(* Claims on the room store (under SpecRoom)                               *)
(***************************************************************************)
RoomMappingsUnique ==
    \A r1, r2 \in room_mappings :
        (r1.matrix_room_id = r2.matrix_room_id \/ r1.feishu_chat_id = r2.feishu_chat_id)
            => r1 = r2

\* a create_room_mapping call for a room or a chat that is already mapped
\* returns Duplicate and leaves the table as it was
DuplicateCreateRejected ==
    (/\ room_call'.op = "create_room_mapping"
     /\ \E r \in room_mappings : \/ r.matrix_room_id = room_call'.key[1]
                                  \/ r.feishu_chat_id = room_call'.key[2])
        => /\ room_call'.status = "Duplicate"
           /\ room_mappings' = room_mappings

\* C6: at any time there is at most one RoomMapping per matrix_room_id and at
\* most one per feishu_chat_id, and creating a second mapping for a mapped
\* room or chat fails with Duplicate and leaves the existing mapping unchanged.
C6_RoomMappingUnique ==
    /\ []RoomMappingsUnique
    /\ [][DuplicateCreateRejected]_vars

\* a second creation was attempted on a mapped room or chat and refused
C6_Witness ==
    /\ room_call.op = "create_room_mapping"
    /\ room_call.status = "Duplicate"
    /\ \E r \in room_mappings : \/ r.matrix_room_id = room_call.key[1]
                                 \/ r.feishu_chat_id = room_call.key[2]

\* C7: after update_room_mapping or delete_room_mapping has completed, every
\* get_room_by_matrix_id / get_room_by_feishu_id returns the row as it is in
\* the table (no row after a delete), never a value cached before the change.
C7_LookupReturnsCurrentRow ==
    /\ room_call.op = "get_room_by_matrix_id"
            => room_call.row = DbRoomByMatrixId(room_call.key)
    /\ room_call.op = "get_room_by_feishu_id"
            => room_call.row = DbRoomByFeishuId(room_call.key)

(***************************************************************************)
(* Claims on the dead-letter store (under SpecDeadLetter)                  *)
(***************************************************************************)
DeadLettersUnique ==
    \A r1, r2 \in dead_letters : r1.dedupe_key = r2.dedupe_key => r1 = r2

\* C8: there is at most one dead-letter row per dedupe_key, and after
\* record_dead_letter on a key (new, or existing in whatever status) the single
\* row of that key is pending and carries the error, payload and updated_at of
\* that latest call.
C8_RecordDeadLetterUpserts ==
    /\ DeadLettersUnique
    /\ dl_call.op = "record_dead_letter" =>
            /\ Cardinality(DeadLetterByKey(dl_call.key)) = 1
            /\ \A r \in DeadLetterByKey(dl_call.key) :
                    /\ r.status = "pending"
                    /\ r.error = dl_call.error
                    /\ r.payload = dl_call.payload
                    /\ r.updated_at = dl_call.at

\* a key was recorded again after its row had been replayed, at a later time
\* than the row was created
C8_Witness ==
    /\ dl_call.op = "record_dead_letter"
    /\ \E r \in DeadLetterByKey(dl_call.key) :
            /\ r.replay_count >= 1
            /\ r.created_at < r.updated_at
            /\ r.status = "pending"
    /\ Cardinality(dead_letters) = 2

(***************************************************************************)
(* Claims on the webhook front end (under SpecWebhook)                     *)
(***************************************************************************)
\* C1: the handlers of the webhook events accepted for one chat run in the
\* order the events were accepted: a later event's handler has not started
\* unless the handler of every earlier event of the chat has finished.
C1_HandlersInArrivalOrder ==
    \A i, j \in DOMAIN tasks :
        (i < j /\ tasks[i].chat = tasks[j].chat /\ tasks[j].st \in {"running", "done"})
            => tasks[i].st = "done"

C5_MappingImpliesProcessed ==
    \A m \in message_mappings :
        SourceId("feishu", m.feishu_message_id) \in processed_events

PrimaryEvents(msg) ==
    {e \in DOMAIN matrix_events :
        matrix_events[e].msg = msg /\ matrix_events[e].primary}

\* C3: however often a Feishu message with one message_id is delivered to the
\* Feishu->Matrix handler, at most one primary Matrix event is produced for it.
C3_OnePrimaryEventPerMessage ==
    \A msg \in FeishuMsgs : Cardinality(PrimaryEvents(msg)) <= 1

\* worker p's replay_dead_letter call returns in this step
ReplayReturns(p) ==
    /\ replays'[p].pc = "returned"
    /\ replays'[p] # replays[p]

\* C9: when replay_dead_letter(R) returns Ok for a recorded row R, R has status
\* replayed and replay_count >= 1, and replay_count is exactly 1 when R had
\* never been replayed before.
C9_ReplayedAfterSuccess ==
    [][\A p \in ReplayProcs :
        (ReplayReturns(p) /\ replays'[p].result = "Ok") =>
            /\ \E r \in dead_letters' : r.id = replays'[p].id
            /\ \A r \in dead_letters' : r.id = replays'[p].id =>
                    /\ r.status = "replayed"
                    /\ r.replay_count >= 1
                    /\ DeadLetterById(r.id).replay_count = 0 => r.replay_count = 1]_vars

\* a freshly recorded message event was replayed through the handler, once
C9_Witness ==
    \E p \in ReplayProcs :
        /\ replays[p].pc = "returned"
        /\ replays[p].result = "Ok"
        /\ replays[p].event.status = "pending"
        /\ dl_call.op = "mark_dead_letter_replayed"
        /\ DeadLetterById(replays[p].id).status = "replayed"
        /\ DeadLetterById(replays[p].id).replay_count = 1
        /\ PrimaryEvents("om_1") # {}

\* C10: when replay_dead_letter(id) was invoked on an existing row and returns
\* an error, the row has status failed and carries that error.
C10_FailedAfterFailure ==
    [][\A p \in ReplayProcs :
        (ReplayReturns(p) /\ replays'[p].result = "Err" /\ replays'[p].event # NoRow) =>
            /\ \E r \in dead_letters' : r.id = replays'[p].id
            /\ \A r \in dead_letters' : r.id = replays'[p].id =>
                    /\ r.status = "failed"
                    /\ r.error = replays'[p].error]_vars

\* a replay whose handler failed has returned the error; the row is failed
C10_Witness ==
    \E p \in ReplayProcs :
        /\ replays[p].pc = "returned"
        /\ replays[p].result = "Err"
        /\ replays[p].error = "handler failed"
        /\ dl_call.op = "mark_dead_letter_failed"
        /\ DeadLetterById(replays[p].id).status = "failed"
        /\ DeadLetterById(replays[p].id).error = "handler failed"

(***************************************************************************)
(* Claims on the Matrix->Feishu event processor (under SpecMatrix)         *)
(***************************************************************************)
PrimaryMessages(event) ==
    {m \in DOMAIN feishu_sent :
        feishu_sent[m].event = event /\ feishu_sent[m].primary}

\* C4: however often one and the same Matrix event is delivered to the
\* Matrix->Feishu processor, at most one Feishu message is sent for it (its
\* text, or its first attachment when it has no text).
C4_OneFeishuMessagePerEvent ==
    \A event \in MatrixEvents : Cardinality(PrimaryMessages(event)) <= 1

(***************************************************************************)
(* Claims on webhook authentication (under SpecSignature)                  *)
(***************************************************************************)
\* the last request was handled by a bridge with a signing key and lacked a
\* signature header or carried a signature that does not match
BadSignatureHandled ==
    /\ webhook_res.status # 0
    /\ SignatureRejected(webhook_cfg, webhook_req)

\* C12: when a signing key is configured, a webhook request whose signature
\* headers are missing or whose signature does not match is answered with
\* HTTP 401 and no handler is queued for it.
C12_BadSignatureRejected ==
    BadSignatureHandled => (webhook_res.status = 401 /\ ~webhook_res.queued)

\* C12, the part about handlers: no handler is queued for such a request
C12_BadSignatureNotQueued ==
    BadSignatureHandled => ~webhook_res.queued

\* a request without signature headers that asks for url_verification with the
\* right token is answered 200
C12_Witness ==
    /\ BadSignatureHandled
    /\ webhook_req.signature = NoSignature
    /\ webhook_res.status = 200

(***************************************************************************)
(* Claims on the provisioning coordinator (under SpecProvisioning)         *)
(***************************************************************************)
\* C18: request_bridge for a chat that already has a PendingBridgeRequest
\* fails with AlreadyExists and leaves the existing request as it was.
C18_DuplicateRequestRejected ==
    (prov_call.op = "request_bridge" /\ prov_call.before # NoRequestRow)
        => /\ prov_call.result = "AlreadyExists"
           /\ RequestOf(prov_call.chat) = prov_call.before

\* a second request for a chat, with another room, was made and rejected
C18_Witness ==
    /\ prov_call.op = "request_bridge"
    /\ prov_call.before # NoRequestRow
    /\ prov_call.before.matrix_room_id = "!r2"
    /\ prov_call.result = "AlreadyExists"

Waiting(p) == waits[p].pc \in {"check", "remove", "expire", "sleep"}

\* what a returned call reports, against the status it read last
WaitResultMatches(p) ==
    waits[p].pc = "returned" =>
        /\ waits[p].result = "Ok" <=> waits[p].seen = "Approved"
        /\ waits[p].result = "Declined" <=> waits[p].seen = "Declined"
        /\ waits[p].result = "TimedOut" <=> waits[p].seen \in {"Expired", "Pending"}
        /\ waits[p].result = "NotFound" <=> waits[p].seen = "None"

\* C19: every wait_for_approval call returns, so it never polls forever; it
\* returns Ok when it read Approved, Declined when it read Declined, TimedOut
\* when it read Expired or the timeout had elapsed, NotFound when the chat had
\* no request.
C19_WaitReturns ==
    /\ \A p \in WaitProcs : Waiting(p) ~> (waits[p].pc = "returned")
    /\ [](\A p \in WaitProcs : WaitResultMatches(p))

\* a call has slept, found the request still Pending after the timeout, and
\* returned TimedOut
C19_Witness ==
    \E p \in WaitProcs :
        /\ waits[p].pc = "returned"
        /\ waits[p].result = "TimedOut"
        /\ prov_call.op = "mark_expired"
        /\ prov_call.chat = waits[p].chat
        /\ RequestOf(waits[p].chat).status = "Expired"

(***************************************************************************)
(* Claims on the admin API (under SpecAdmin)                               *)
(***************************************************************************)
Accepted(token, endpoint) == RequireAuth(admin_cfg, token, RequiredScope(endpoint)).ok

\* C13 as stated: the configured delete token is accepted on every endpoint,
\* the configured write token on write- and read-scoped endpoints only, the
\* configured read token on read-scoped endpoints only.
C13_TokenPerScope ==
    \A endpoint \in AdminEndpoints :
        /\ Accepted(admin_cfg.delete_token, endpoint)
        /\ Accepted(admin_cfg.write_token, endpoint)
                <=> RequiredScope(endpoint) \in {"read", "write"}
        /\ Accepted(admin_cfg.read_token, endpoint)
                <=> RequiredScope(endpoint) = "read"

\* C13, amended: a token is granted the highest scope whose configured token
\* it equals (delete, then write, then read; none for any other token).  A
\* token granted delete is accepted on every admin endpoint, one granted write
\* on write- and read-scoped endpoints but not on delete-scoped ones, one
\* granted read only on read-scoped endpoints, and a token granted no scope
\* nowhere.
C13_GrantedScopeHierarchy ==
    \A token \in BearerTokens \ {None}, endpoint \in AdminEndpoints :
        LET granted == ResolveScopeForToken(admin_cfg, token)
        IN  /\ granted = "delete" <=> token = admin_cfg.delete_token
            /\ granted = "write" <=>
                    (token = admin_cfg.write_token /\ token # admin_cfg.delete_token)
            /\ granted = "read" <=>
                    (token = admin_cfg.read_token
                        /\ token \notin {admin_cfg.write_token, admin_cfg.delete_token})
            /\ granted = "delete" => Accepted(token, endpoint)
            /\ granted = "write" =>
                    (Accepted(token, endpoint) <=>
                        RequiredScope(endpoint) \in {"read", "write"})
            /\ granted = "read" =>
                    (Accepted(token, endpoint) <=> RequiredScope(endpoint) = "read")
            /\ granted = None => ~Accepted(token, endpoint)

\* a token that is the write token and not the delete token was refused on
\* delete_bridge, and !r1 is still bridged
C13_Witness ==
    /\ admin_req.endpoint = "delete_bridge"
    /\ admin_req.token = admin_cfg.write_token
    /\ admin_req.token # admin_cfg.delete_token
    /\ admin_res.status = 401
    /\ DbRoomByMatrixId("!r1") # NoRow

\* the last request carried no token, an unknown token, or a token whose scope
\* does not cover the endpoint
Unauthorized ==
    /\ admin_res.status # 0
    /\ \/ admin_req.token = None
       \/ ResolveScopeForToken(admin_cfg, admin_req.token) = None
       \/ ~ScopeSatisfies(ResolveScopeForToken(admin_cfg, admin_req.token),
                          RequiredScope(admin_req.endpoint))

\* C14: an admin request with no token, an unknown token, or a token whose
\* scope does not cover the endpoint is answered 401 with a JSON error body,
\* and the endpoint's action is not performed.
C14_UnauthorizedGets401 ==
    Unauthorized =>
        /\ admin_res.status = 401
        /\ admin_res.message \in {"missing authorization token",
                                  "invalid authorization token"}
        /\ ~admin_res.performed

\* C14, the part about the action: an unauthorized request changes neither
\* the mappings, nor the dead letters, nor the pending requests
C14_UnauthorizedNotPerformed ==
    [][(admin_req' # admin_req /\ Unauthorized')
        => UNCHANGED <<room_mappings, dead_letters, pending_requests>>]_vars

(***************************************************************************)
(* Claims on the Feishu client (under SpecClient)                          *)
(***************************************************************************)
NotRetried == {"auth_failed", "permission_denied", "invalid_request", "unknown"}

\* C15: a failure classified auth_failed, permission_denied, invalid_request
\* or unknown ends the call at once: no attempt follows it, and when it is
\* the first failure the call was attempted exactly once.  Every failure that
\* was followed by another attempt is rate_limited or server_transient.
C15_OnlyRetryableRetried ==
    \A i \in 1..Len(api_call.classes) :
        /\ api_call.classes[i] \in NotRetried =>
                /\ i = Len(api_call.classes)
                /\ api_call.attempts = i
                /\ api_call.pc = "returned"
                /\ api_call.result = "Err"
        /\ i < Len(api_call.classes) =>
                api_call.classes[i] \in {"rate_limited", "server_transient"}

\* a call was retried after rate_limited and then failed at once on auth_failed
C15_Witness ==
    /\ api_call.pc = "returned"
    /\ api_call.result = "Err"
    /\ api_call.classes = <<"rate_limited", "auth_failed">>
    /\ api_call.attempts = 2

\* C16 as stated: a call performs at most N attempts, N >= 1 being the
\* configured number (default 3).
C16_AtMostNAttempts == max_retries >= 1 => api_call.attempts <= max_retries

\* C16, amended: a call performs at most N + 1 attempts, N being the
\* configured number of retries (default 3, so 4 attempts); a failure of
\* attempt N + 1 ends the call, and every started call returns.
C16_AtMostNPlusOneAttempts ==
    /\ [](api_call.attempts <= max_retries + 1)
    /\ []((api_call.attempts = max_retries + 1 /\ Len(api_call.classes) = api_call.attempts)
            => (api_call.pc = "returned" /\ api_call.result = "Err"))
    /\ (api_call.pc \in {"send", "sleep"}) ~> (api_call.pc = "returned")

\* with the default configuration a call failed on its fourth attempt, after
\* sleeping 250, 500 and 1000 ms
C16_Witness ==
    /\ max_retries = DEFAULT_MAX_RETRIES
    /\ api_call.pc = "returned"
    /\ api_call.result = "Err"
    /\ api_call.attempts = DEFAULT_MAX_RETRIES + 1
    /\ api_call.delay = 2000
    /\ \A i \in 1..Len(api_call.classes) : Retryable(api_call.classes[i])

\* C17: get_tenant_access_token never returns a token whose validity has
\* ended, and returns the cached token only while at least 5 minutes of its
\* validity remain.
C17_TokenStillValid ==
    (api_call.pc = "returned" /\ api_call.result = "Ok") =>
        /\ api_call.at < api_call.token.valid_until
        /\ api_call.cached => api_call.token.valid_until - api_call.at >= RefreshMarginSecs

\* C17 for tokens of the usual lifetime: a token issued for more than 6
\* minutes is never returned with less than 5 minutes left
C17_LongTokenStillValid ==
    (api_call.pc = "returned" /\ api_call.result = "Ok" /\ api_call.cached
        /\ token_expires_at[1] = api_call.token.valid_until - RefreshMarginSecs) =>
        api_call.token.valid_until - api_call.at >= RefreshMarginSecs

(***************************************************************************)
(* Claims on the batch replay (under SpecBatch)                            *)
(***************************************************************************)
\* C20: the batch replay reports success = true exactly when
\* replay_dead_letter succeeded for every requested id, and every id whose
\* replay failed is in the failures list of the response.
C20_BatchSuccessIffAllReplayed ==
    (batch.pc = "responded" /\ batch.response.status # 401) =>
        /\ Len(batch.results) = Len(batch.ids)
        /\ batch.response.success <=>
                \A i \in 1..Len(batch.results) : batch.results[i] = "Ok"
        /\ \A i \in 1..Len(batch.results) :
                batch.results[i] = "Err" =>
                    \E j \in 1..Len(batch.response.failures) :
                        batch.response.failures[j].id = batch.ids[i]
        /\ batch.response.failed =
                Cardinality({i \in 1..Len(batch.results) : batch.results[i] = "Err"})
        /\ batch.response.requested = Len(batch.ids)
        /\ batch.response.replayed + batch.response.failed = batch.response.requested

\* a batch of two ids was answered: the first replayed, the second failed
C20_Witness ==
    /\ batch.pc = "responded"
    /\ batch.ids = <<1, 2>>
    /\ batch.results = <<"Ok", "Err">>
    /\ ~batch.response.success
    /\ batch.response.status = 400
    /\ Len(batch.response.failures) = 1
    /\ batch.response.failures[1].id = 2
    /\ dl_call.op = "mark_dead_letter_replayed"

(***************************************************************************)
(* Claims on the dead-letter cleanup (under SpecCleanup)                   *)
(***************************************************************************)
\* a cleanup request with this body is answered with 200 in this step
CleanupAnswered(body) ==
    /\ admin_req' # admin_req \/ admin_res' # admin_res
    /\ admin_req'.endpoint = "cleanup_dead_letters"
    /\ admin_req'.body = body
    /\ admin_res'.status = 200

\* C21: a cleanup with dry_run deletes no rows, and its candidate_ids are
\* exactly the ids that the same request without dry_run would delete.
C21_DryRunListsWhatCleanupDeletes ==
    [][\A body \in CleanupBodies :
        (body.dry_run /\ CleanupAnswered(body)) =>
            /\ dead_letters' = dead_letters
            /\ {admin_res'.candidate_ids[i] : i \in 1..Len(admin_res'.candidate_ids)} =
                    CleanupCandidateIds(body.status, CleanupOlderThan(body),
                                        CleanupLimit(body))]_vars

\* C21, the part that holds: a cleanup with dry_run deletes no rows and
\* reports deleted = 0
C21_DryRunDeletesNothing ==
    [][\A body \in CleanupBodies :
        (body.dry_run /\ CleanupAnswered(body)) =>
            /\ dead_letters' = dead_letters
            /\ admin_res'.deleted = 0]_vars

(***************************************************************************)
(* Claims on edits, redactions and notices from Matrix (under SpecEvents)  *)
(***************************************************************************)
\* worker p has processed a redaction and returned Ok
RedactionProcessed(p) ==
    /\ processing[p].pc = "returned"
    /\ processing[p].result = "Ok"
    /\ EventType(processing[p].event) = "m.room.redaction"

\* a recall of the Feishu message `message_id` has been issued
RecallIssued(message_id) ==
    \E c \in DOMAIN feishu_sent :
        feishu_sent[c].kind = "recall" /\ feishu_sent[c].target = message_id

\* C22: with bridge_matrix_redactions enabled, once a redaction whose target
\* had a MessageMapping has been processed, a recall of the mapped Feishu
\* message has been issued and that MessageMapping no longer exists.
C22_RedactionRecallsAndUnmaps ==
    \A p \in MatrixProcs :
        (RedactionProcessed(p) /\ processing[p].found # NoRow) =>
            /\ bridge_cfg.bridge_matrix_redactions
            /\ RecallIssued(processing[p].found.feishu_message_id)
            /\ processing[p].found \notin message_mappings
            /\ GetMessageByMatrixId(EventRedacts(processing[p].event)) = NoRow

\* the redaction of $e1 has been processed after $e1 was sent and mapped
C22_Witness ==
    \E p \in MatrixProcs :
        /\ RedactionProcessed(p)
        /\ processing[p].found # NoRow
        /\ processing[p].found.matrix_event_id = "$e1"
        /\ RecallIssued(processing[p].found.feishu_message_id)
        /\ SourceId("", "$r1") \in processed_events

\* worker p has processed an edit (m.replace) and returned Ok
EditProcessed(p) ==
    /\ processing[p].pc = "returned"
    /\ processing[p].result = "Ok"
    /\ EventEditOf(processing[p].event) # None

\* update_message has been called for the edit `event` on `message_id`
UpdateIssued(event, message_id) ==
    \E c \in DOMAIN feishu_sent :
        /\ feishu_sent[c].kind = "update"
        /\ feishu_sent[c].event = event
        /\ feishu_sent[c].target = message_id

\* worker p takes a step of the processing of an edit
EditStep(p) ==
    /\ EventEditOf(processing[p].event) # None
    /\ processing[p].pc \notin {"idle", "returned"}
    /\ processing'[p] # processing[p]

\* C23 as stated, for any configuration: once an edit has been processed
\* whose target has a MessageMapping, update_message has been called on the
\* mapped Feishu message.
C23_EditUpdatesTarget ==
    \A p \in MatrixProcs :
        LET target == GetMessageByMatrixId(EventEditOf(processing[p].event))
        IN  (EditProcessed(p) /\ target # NoRow) =>
                UpdateIssued(processing[p].event, target.feishu_message_id)

\* C23: with bridge_matrix_edit enabled, once an edit has been processed whose
\* target had a MessageMapping, update_message has been called on the Feishu
\* message of that mapping; and no step of the processing of an edit creates,
\* changes or deletes a MessageMapping.
C23_EditUpdatesAndKeepsMappings ==
    /\ [](\A p \in MatrixProcs :
            (EditProcessed(p) /\ processing[p].found # NoRow) =>
                /\ bridge_cfg.bridge_matrix_edit
                /\ UpdateIssued(processing[p].event,
                                processing[p].found.feishu_message_id))
    /\ [][\A p \in MatrixProcs :
            EditStep(p) => message_mappings' = message_mappings]_vars

\* the edit $x1 of $e1 has been processed after $e1 was sent and mapped
C23_Witness ==
    \E p \in MatrixProcs :
        /\ EditProcessed(p)
        /\ processing[p].found # NoRow
        /\ processing[p].found.matrix_event_id = "$e1"
        /\ GetMessageByMatrixId("$e1") = processing[p].found
        /\ SourceId("", "$x1") \in processed_events

(***************************************************************************)
(* Claims on attachments from Matrix (under SpecMatrix)                    *)
(***************************************************************************)
\* worker p has forwarded the attachment of an event without text, and
\* process_event has returned Ok
AttachmentOnlyForwarded(p) ==
    /\ processing[p].pc = "returned"
    /\ processing[p].result = "Ok"
    /\ processing[p].mapping # NoRow
    /\ ~EventHasText(processing[p].event)
    /\ EventAttachments(processing[p].event) = 1
    /\ processing[p].attached # <<>>

\* C24: once an event with empty text and a single image has been forwarded,
\* a MessageMapping for the event exists whose feishu_message_id is the id of
\* an image message sent for that event.
C24_AttachmentIsPrimaryMapping ==
    \A p \in MatrixProcs :
        AttachmentOnlyForwarded(p) =>
            \E row \in message_mappings :
                /\ row.matrix_event_id = processing[p].event
                /\ row.feishu_message_id \in DOMAIN feishu_sent
                /\ feishu_sent[row.feishu_message_id].event = processing[p].event
                /\ feishu_sent[row.feishu_message_id].kind = "image"

\* the image $e2 has been forwarded and mapped to the one message sent for it
C24_Witness ==
    \E p \in MatrixProcs :
        /\ AttachmentOnlyForwarded(p)
        /\ processing[p].event = "$e2"
        /\ processing[p].primary # 0
        /\ GetMessageByMatrixId("$e2") # NoRow
        /\ GetMessageByMatrixId("$e2").feishu_message_id = processing[p].primary

(***************************************************************************)
(* Claims on malformed webhook bodies (under SpecSignature)                *)
(***************************************************************************)
\* the last webhook request has been answered and its body is not JSON
MalformedHandled ==
    /\ webhook_res.status # 0
    /\ ~JsonIsValid(webhook_req.body)

\* C25: a webhook request whose body is not valid JSON is answered with 400,
\* and no handler is queued for it.
C25_MalformedJsonGets400 ==
    MalformedHandled => (webhook_res.status = 400 /\ ~webhook_res.queued)

\* C25, the part that holds: no handler is queued for a body that is not JSON
C25_MalformedJsonNotQueued ==
    MalformedHandled => (webhook_res.status = 500 /\ ~webhook_res.queued)

(***************************************************************************)
(* Claims on the msgtype policy (under SpecEvents)                         *)
(***************************************************************************)
\* the messages sent to Feishu for `event`
SentFor(event) ==
    {c \in DOMAIN feishu_sent :
        feishu_sent[c].event = event /\ feishu_sent[c].kind \in {"text", "image"}}

\* C26: when blocked_matrix_msgtypes contains the msgtype of an m.room.message
\* event of a bridged room, nothing is sent to Feishu for the event, and once
\* process_event has returned Ok the event is recorded as processed.
C26_BlockedMsgtypeNotSent ==
    \A event \in {"$e1"} \cup RelatedEvents :
        (/\ EventType(event) = "m.room.message"
         /\ EventMsgtype(event) \in bridge_cfg.blocked_matrix_msgtypes) =>
            /\ SentFor(event) = {}
            /\ \A p \in MatrixProcs :
                    (/\ processing[p].event = event
                     /\ processing[p].pc = "returned"
                     /\ processing[p].result = "Ok") => IsEventProcessed(event)

\* C26, the part that holds: an event of a blocked msgtype that process_event
\* returned Ok for is recorded as processed
C26_BlockedMsgtypeProcessed ==
    \A p \in MatrixProcs :
        (/\ EventMsgtype(processing[p].event) \in bridge_cfg.blocked_matrix_msgtypes
         /\ processing[p].pc = "returned"
         /\ processing[p].result = "Ok") => IsEventProcessed(processing[p].event)

(***************************************************************************)
(* Claims on the per-chat task queue (under SpecWebhook)                   *)
(***************************************************************************)
\* the queued tasks of `chat` whose handler is executing
RunningTasks(chat) ==
    {i \in DOMAIN tasks : tasks[i].chat = chat /\ tasks[i].st = "running"}

\* a handler executes only inside a task that holds the lock of its chat
HandlerRunsUnderLock ==
    \A i \in 1..MaxTasks :
        frames[TaskCtx(i)].pc # "idle" =>
            /\ i \in DOMAIN tasks
            /\ tasks[i].st = "running"
            /\ tasks[i].chat \in chat_queues
            /\ lock_holder[tasks[i].chat] = i

\* a task gives up the lock of its chat only by finishing
LockHeldUntilFinished ==
    \A chat \in Chats :
        (lock_holder[chat] # 0 /\ lock_holder'[chat] # lock_holder[chat]) =>
            /\ tasks[lock_holder[chat]].st = "running"
            /\ frames[TaskCtx(lock_holder[chat])].pc \in {"ok", "err"}
            /\ tasks'[lock_holder[chat]].st = "done"

\* C27: for each chat_id at most one queued webhook handler executes at a time:
\* every task of the chat takes the chat's one lock before its handler runs and
\* keeps it until the handler has finished.
C27_OneHandlerPerChat ==
    /\ [](/\ \A chat \in Chats : Cardinality(RunningTasks(chat)) <= 1
          /\ HandlerRunsUnderLock)
    /\ [][LockHeldUntilFinished]_vars

\* two tasks of one chat: the first runs its handler, the second waits for the lock
C27_Witness ==
    \E i, j \in DOMAIN tasks :
        /\ i # j
        /\ tasks[i].chat = tasks[j].chat
        /\ tasks[i].st = "running"
        /\ frames[TaskCtx(i)].pc \notin {"idle", "ok", "err"}
        /\ tasks[j].st = "waiting"

(***************************************************************************)
(* Claims on the processed-event log of the Feishu side (under SpecWebhook)*)
(***************************************************************************)
\* the handler running in context c has returned Ok after producing the primary
\* Matrix event of its message
FeishuWorkDone(c) ==
    /\ frames[c].pc = "ok"
    /\ frames[c].primary # 0
    /\ PrimaryEvents(frames[c].msg) # {}

\* C28: an event's handler looks its id up in the processed_events log before
\* any work and writes the id after the work, on the same path: a Feishu
\* handler that has done its work and returned has left feishu:<id> in the log.
C28_FeishuIdLoggedAfterWork ==
    \A c \in Ctxs :
        FeishuWorkDone(c) => SourceId("feishu", frames[c].msg) \in processed_events

(***************************************************************************)
(* Claims on the status of a dead letter (under SpecReplay)                *)
(***************************************************************************)
\* the status of row `old` differs from the one of the same row after the step
StatusChanged(old, new) == old.id = new.id /\ old.status # new.status

\* this step is a record_dead_letter that met the row of its dedupe_key
ReIngested(old, new) ==
    /\ dl_call'.op = "record_dead_letter"
    /\ new.dedupe_key = old.dedupe_key
    /\ new.status = "pending"

\* C29: the status of a DeadLetterEvent changes only from pending to replayed,
\* from pending to failed, or back to pending by a re-ingest on its dedupe_key;
\* a replayed or failed row keeps its status until it is re-ingested.
C29_StatusTransitions ==
    [][\A old \in dead_letters : \A new \in dead_letters' :
            StatusChanged(old, new) =>
                \/ old.status = "pending" /\ new.status \in {"replayed", "failed"}
                \/ ReIngested(old, new)]_vars

\* C29, the part about replayed rows alone: a replayed row changes its status
\* only by a re-ingest
C29_ReplayedRowStays ==
    [][\A old \in dead_letters : \A new \in dead_letters' :
            (StatusChanged(old, new) /\ old.status = "replayed") =>
                ReIngested(old, new)]_vars

(***************************************************************************)
(* Claims on finished bridge requests (under SpecProvisioning)             *)
(***************************************************************************)
TerminalStatuses == {"Approved", "Declined", "Expired"}

\* C30: a PendingBridgeRequest that has reached Approved, Declined or Expired
\* is dropped from pending_requests, so that a request_bridge for its chat
\* made when no wait_for_approval call is in progress succeeds.
C30_TerminalRequestDropped ==
    (/\ prov_call.op = "request_bridge"
     /\ prov_call.before.status \in TerminalStatuses
     /\ \A p \in WaitProcs : ~Waiting(p))
        => prov_call.result = "Ok"

\* C30, for the one path that does drop the request: when wait_for_approval
\* returns after reading Approved, Declined or Expired, it has removed the
\* request it read
C30_ReadTerminalRemoves ==
    [][\A p \in WaitProcs :
            (/\ waits[p].pc = "remove"
             /\ waits'[p].pc = "returned") =>
                waits[p].chat \notin DOMAIN pending_requests']_vars

(***************************************************************************)
(* Claims on failed webhook handlers (under SpecWebhook)                   *)
(***************************************************************************)
\* the queued task i ends in this step with its handler having returned Err
TaskFailed(i) ==
    /\ i \in DOMAIN tasks
    /\ tasks[i].st = "running"
    /\ frames[TaskCtx(i)].pc = "err"
    /\ tasks'[i].st = "done"

\* C31: when the handler of a queued Feishu message event has failed, the
\* front end catches the error and a pending dead-letter row for the event's
\* chat exists once the task has ended.
C31_FailedHandlerDeadLettered ==
    [][\A i \in 1..MaxTasks :
            TaskFailed(i) =>
                \E r \in dead_letters' :
                    r.status = "pending" /\ r.chat_id = tasks[i].chat]_vars

(***************************************************************************)
(* Claims on failed Matrix events (under SpecEvents)                       *)
(***************************************************************************)
\* worker p's process_event has returned an error
DispatchFailed(p) ==
    /\ processing[p].pc = "returned"
    /\ processing[p].result = "Err"

\* C32: when dispatching a Matrix event has failed and enable_failure_degrade
\* is disabled, the appservice transaction that carried the event returns the
\* error to its caller instead of Ok.
C32_ErrorPropagated ==
    \A p \in MatrixProcs :
        (DispatchFailed(p) /\ ~bridge_cfg.enable_failure_degrade)
            => processing[p].txn = "Err"

(***************************************************************************)
(* Claims on the delivery uuid (under SpecMatrix)                          *)
(***************************************************************************)
\* C33: the uuid passed to Feishu send_message / reply_message for a Matrix
\* event is a function of the event id and its content: two deliveries of the
\* same event with the same content pass the same uuid.
C33_SameEventSameUuid ==
    \A c, d \in DOMAIN feishu_sent :
        (/\ feishu_sent[c].event = feishu_sent[d].event
         /\ feishu_sent[c].kind = "text"
         /\ feishu_sent[d].kind = "text")
            => feishu_sent[c].uuid = feishu_sent[d].uuid

\* the chat-disbanded handler of task i has returned for a chat that was bridged
DisbandReturned(i) ==
    /\ i \in DOMAIN tasks
    /\ tasks[i].kind = "disbanded"
    /\ frames[TaskCtx(i)].pc = "ok"
    /\ frames[TaskCtx(i)].found # NoRow

\* C34: once the chat-disbanded handler has returned for a bridged chat,
\* get_room_by_feishu_id of the chat finds no RoomMapping and no MessageMapping
\* of the chat's Matrix room is left
C34_DisbandLeavesNoMapping ==
    \A i \in 1..MaxTasks :
        DisbandReturned(i) =>
            /\ CachedLookup(FsKey(tasks[i].chat), DbRoomByFeishuId(tasks[i].chat)) = NoRow
            /\ GetMessagesByRoom(frames[TaskCtx(i)].found.matrix_room_id) = {}

\* the part of C34 that the database alone decides
C34_DisbandClearsTables ==
    \A i \in 1..MaxTasks :
        DisbandReturned(i) =>
            /\ DbRoomByFeishuId(tasks[i].chat) = NoRow
            /\ GetMessagesByRoom(frames[TaskCtx(i)].found.matrix_room_id) = {}

\* process_event has looked up the target of the edit or redaction it handles
TargetLookedUp(p) ==
    \/ /\ EventEditOf(processing[p].event) # None
       /\ bridge_cfg.bridge_matrix_edit
       /\ processing[p].mapping # NoRow
       /\ processing[p].pc \in {"update", "mark"}
    \/ /\ EventRedacts(processing[p].event) # None
       /\ bridge_cfg.bridge_matrix_redactions
       /\ processing[p].pc \in {"recall", "unmap", "mark"}

\* the events the transaction has handed over before the one in progress
HandledBefore(p) == {Transaction[k] : k \in 1..(delivered - 1)}

\* C35: within one room the events of a transaction are handled in order: an
\* edit or redaction is handled after the handler of its target has returned,
\* and its lookup finds the MessageMapping row of the target
C35_TargetHandledAndFound ==
    \A p \in MatrixProcs :
        TargetLookedUp(p) =>
            /\ \/ EventEditOf(processing[p].event) \in HandledBefore(p)
               \/ EventRedacts(processing[p].event) \in HandledBefore(p)
            /\ processing[p].found # NoRow

\* the order alone: the target has been handed over and has returned before
C35_TargetHandledBefore ==
    \A p \in MatrixProcs :
        TargetLookedUp(p) =>
            \/ EventEditOf(processing[p].event) \in HandledBefore(p)
            \/ EventRedacts(processing[p].event) \in HandledBefore(p)

(***************************************************************************)
(* Claims on applied approvals (under SpecProvisioning)                    *)
(***************************************************************************)
AppliedStatuses == {"Approved", "Declined"}

\* the wait_for_approval call p returns in this step
WaitReturns(p) == Waiting(p) /\ waits'[p].pc = "returned"

\* C36: once mark_approval has returned Applied for a chat, the status it set
\* is never overwritten with Expired, and a wait_for_approval call in progress
\* for the chat returns Ok for an approval and Declined for a decline, never
\* TimedOut.
C36_AppliedDecisionStands ==
    [][/\ \A chat \in ProvChats :
            RequestOf(chat).status \in AppliedStatuses =>
                RequestOf(chat)'.status # "Expired"
       /\ \A p \in WaitProcs :
            (WaitReturns(p) /\ RequestOf(waits[p].chat).status \in AppliedStatuses) =>
                waits'[p].result =
                    IF RequestOf(waits[p].chat).status = "Approved" THEN "Ok"
                    ELSE "Declined"]_vars

\* a step of mark_approval that changes the map or what the last call returned
MarkApprovalStep ==
    /\ prov_call'.op = "mark_approval"
    /\ <<pending_requests, prov_call>>' # <<pending_requests, prov_call>>
    /\ UNCHANGED <<now, waits, wait_calls>>

\* C37: mark_approval changes a status only from Pending, to Approved or to
\* Declined, and then returns Applied; for a chat without a request or with a
\* request that is not Pending it returns Expired and leaves the map as it is,
\* so an Approved, Declined or Expired request keeps its status.
C37_MarkApprovalOnlyFromPending ==
    [][MarkApprovalStep =>
        /\ \A chat \in ProvChats :
            RequestOf(chat)' # RequestOf(chat) =>
                /\ chat = prov_call'.chat
                /\ RequestOf(chat).status = "Pending"
                /\ RequestOf(chat)' \in
                        {[RequestOf(chat) EXCEPT !.status = "Approved"],
                         [RequestOf(chat) EXCEPT !.status = "Declined"]}
        /\ prov_call'.result \in {"Applied", "Expired"}
        /\ prov_call'.result = "Applied" <=>
                RequestOf(prov_call'.chat).status = "Pending"
        /\ prov_call'.result = "Expired" => pending_requests' = pending_requests]_vars

\* mark_approval was called for an Approved request: it returned Expired and
\* the request is still Approved
C37_Witness ==
    /\ prov_call.op = "mark_approval"
    /\ prov_call.result = "Expired"
    /\ RequestOf(prov_call.chat).status = "Approved"

(***************************************************************************)
(* Claims on the progress of queued tasks (under SpecQueue)                *)
(***************************************************************************)
Queued(i) == i \in DOMAIN tasks /\ tasks[i].st \in {"spawned", "waiting"}
Runs(i) == i \in DOMAIN tasks /\ tasks[i].st = "running"
Ended(i) == i \in DOMAIN tasks /\ tasks[i].st = "done"

\* C38: every queued webhook task eventually holds its chat's lock and runs
\* its handler, and the handler runs to its end: no task waits forever for
\* the chat_queues map, for its chat's lock or for the shared Feishu client.
C38_QueuedTaskRuns ==
    \A i \in 1..MaxTasks :
        /\ Queued(i) ~> Runs(i)
        /\ Runs(i) ~> Ended(i)

\* a task waits for the lock of its chat while the task holding that lock
\* waits for the client, which a replayed handler holds
C38_Witness ==
    \E i \in 1..MaxTasks :
        /\ Runs(i)
        /\ lock_waiters[tasks[i].chat] # <<>>
        /\ client_holder = ReplayCtx(QueueProc)
        /\ ClientWaits(TaskCtx(i))

(***************************************************************************)
(* Claims on replayed handlers and the chat locks (under SpecQueue)        *)
(***************************************************************************)
\* replay_dead_letter of worker p is inside the handler of an event of chat
ReplayHandles(p, chat) ==
    /\ replays[p].pc = "handler"
    /\ frames[ReplayCtx(p)].pc \notin {"idle", "ok", "err"}
    /\ MsgChat(frames[ReplayCtx(p)].msg) = chat

\* the queued task i is inside its handler
TaskHandles(i) == Runs(i) /\ frames[TaskCtx(i)].pc \notin {"idle", "ok", "err"}

\* C39: a handler called by replay_dead_letter for an event of a chat never
\* runs while the handler of a queued webhook task of the same chat runs.
C39_ReplayKeepsChatOrder ==
    \A p \in ReplayProcs, i \in 1..MaxTasks :
        ~(TaskHandles(i) /\ ReplayHandles(p, tasks[i].chat))

\* what does hold: the replayed handler may overlap only with handlers of
\* webhook tasks, never with a second task of the chat
C39_TasksOfChatStillSerial ==
    \A i, j \in 1..MaxTasks :
        (TaskHandles(i) /\ TaskHandles(j) /\ tasks[i].chat = tasks[j].chat) => i = j

(***************************************************************************)
(* Claims on the replay counter (under SpecReplay)                         *)
(***************************************************************************)
\* worker p's replay_dead_letter call returns Ok in this step, coming back from
\* the handler it dispatched the event of row id to
ReplayDispatched(p, id) ==
    /\ replays[p].pc = "handler"
    /\ replays[p].id = id
    /\ replays'[p].pc = "returned"
    /\ replays'[p].result = "Ok"

\* C40: the replay_count of a dead letter grows by exactly 1 with every
\* successful replay dispatch of the row and is changed by nothing else: a
\* re-ingest on its dedupe_key, a failed replay and a replay_dead_letter call
\* on a replayed row, which dispatches nothing and returns Ok, leave it as it
\* is.
C40_ReplayCountCountsDispatches ==
    [][\A old \in dead_letters :
        /\ \E new \in dead_letters' : new.id = old.id
        /\ \A new \in dead_letters' :
            new.id = old.id =>
                new.replay_count =
                    IF \E p \in ReplayProcs : ReplayDispatched(p, old.id)
                    THEN old.replay_count + 1
                    ELSE old.replay_count]_vars

\* a row was replayed once, recorded again, and its second replay failed: the
\* counter still reads 1
C40_Witness ==
    /\ dl_call.op = "mark_dead_letter_failed"
    /\ \E r \in dead_letters :
            /\ r.id = dl_call.key
            /\ r.status = "failed"
            /\ r.replay_count = 1
            /\ r.error = "handler failed"

=============================================================================
